---- MODULE Spec2Model ----
(***************************************************************************)
(* A model of the MCP tool lister web application (src/app.py,             *)
(* src/mcp_client.py, src/config.py): the process-wide connection cache,   *)
(* the cache-clear handler, the list-tools handler and the two-round       *)
(* AI-directed query loop with its concurrent batch of tool calls.         *)
(*                                                                         *)
(* The Flask application is started with threaded=True (src/app.py:562),   *)
(* so request handlers run in separate threads, each driving its own       *)
(* event loop through asyncio.run.  A thread is modelled by its program    *)
(* counter pc[t]; steps of different threads interleave at the points      *)
(* where the handlers block or suspend.                                    *)
(***************************************************************************)
EXTENDS Naturals, Integers, Sequences, FiniteSets, TLC

\* ------------------------------------------------------------------ bounds
\* Request-handling threads of the server.
Threads == {"t1", "t2"}
\* Largest number of tool calls the model's first response requests.
MaxCalls == 2
\* Total number of list-tools and clear-cache requests the threads handle.
MaxRequests == 3
\* Largest number of server definitions in a configuration parsed on its own.
MaxServers == 2

\* ------------------------------------------------------------- helpers
RECURSIVE SeqSum(_)
SeqSum(s) == IF s = << >> THEN 0 ELSE Head(s) + SeqSum(Tail(s))

Range(s) == { s[i] : i \in 1..Len(s) }

\* ------------------------------------------------------ command resolution
\* The host the server runs on: sys.platform, USERNAME, the files that exist
\* and the commands shutil.which finds on the search path.
HostEnv ==
  [platform |-> "linux", username |-> "dev",
   files |-> {"/usr/bin/npx", "/usr/bin/uv"},
   on_path |-> {"npx", "uv"}]

NotFound == "(None)"

\* os.path.isfile
IsFile(env, path) == path \in env.files

\* shutil.which
Which(env, command) ==
  IF command \in env.on_path THEN "/usr/bin/" \o command ELSE NotFound

\* CommandResolver.COMMAND_ALTERNATIVES
COMMAND_ALTERNATIVES ==
  [c \in {"uvx", "npx", "python", "node"} |->
     CASE c = "uvx" -> <<"uvx", "uv">>
       [] c = "npx" -> <<"npx", "npm">>
       [] c = "python" -> <<"python", "python3", "py">>
       [] OTHER -> <<"node", "nodejs">>]

\* CommandResolver._get_windows_search_paths
WindowsSearchPaths(env, command) ==
  << "C:/Users/" \o env.username
       \o "/AppData/Local/Programs/Python/Python313/Scripts/" \o command \o ".exe",
     "C:/Users/" \o env.username \o "/AppData/Roaming/npm/" \o command \o ".cmd",
     "C:/Program Files/nodejs/" \o command \o ".cmd" >>

\* The first element of a sequence of paths that is a file, if any.
RECURSIVE FirstFile(_, _)
FirstFile(env, paths) ==
  IF paths = << >> THEN NotFound
  ELSE IF IsFile(env, Head(paths)) THEN Head(paths)
  ELSE FirstFile(env, Tail(paths))

\* A search that probes the installation directories on every platform.
find_commandAnyPlatform(env, command) ==
  IF IsFile(env, command) THEN command
  ELSE IF Which(env, command) # NotFound THEN Which(env, command)
  ELSE FirstFile(env, WindowsSearchPaths(env, command))

\* CommandResolver.find_command
find_command(env, command) ==
  IF IsFile(env, command) THEN command
  ELSE IF Which(env, command) # NotFound THEN Which(env, command)
  ELSE IF env.platform = "win32" THEN FirstFile(env, WindowsSearchPaths(env, command))
  ELSE NotFound

\* The first alternative find_command resolves, if any.
RECURSIVE FirstResolved(_, _)
FirstResolved(env, alts) ==
  IF alts = << >> THEN NotFound
  ELSE IF find_command(env, Head(alts)) # NotFound THEN find_command(env, Head(alts))
  ELSE FirstResolved(env, Tail(alts))

\* str.lower on the command tokens in use.
Lower(command) ==
  CASE command = "NPX" -> "npx" [] command = "UVX" -> "uvx" [] OTHER -> command

\* The first alternative find_command resolves, by its name.
RECURSIVE FirstResolvedName(_, _)
FirstResolvedName(env, alts) ==
  IF alts = << >> THEN NotFound
  ELSE IF find_command(env, Head(alts)) # NotFound THEN Head(alts)
  ELSE FirstResolvedName(env, Tail(alts))

\* A resolution that returns the name of the alternative that resolves, not
\* the path find_command found for it.
resolve_commandAlternativeName(env, command) ==
  IF IsFile(env, command) THEN command
  ELSE IF find_command(env, command) # NotFound THEN find_command(env, command)
  ELSE LET base_cmd == Lower(command)
       IN IF /\ base_cmd \in DOMAIN COMMAND_ALTERNATIVES
             /\ FirstResolved(env, COMMAND_ALTERNATIVES[base_cmd]) # NotFound
          THEN FirstResolvedName(env, COMMAND_ALTERNATIVES[base_cmd])
          ELSE command

\* A resolution that stops after find_command and never tries the alternatives.
resolve_commandNoAlternatives(env, command) ==
  IF IsFile(env, command) THEN command
  ELSE IF find_command(env, command) # NotFound THEN find_command(env, command)
  ELSE command

\* CommandResolver.resolve_command
resolve_command(env, command) ==
  IF IsFile(env, command) THEN command
  ELSE IF find_command(env, command) # NotFound THEN find_command(env, command)
  ELSE LET base_cmd == Lower(command)
       IN IF /\ base_cmd \in DOMAIN COMMAND_ALTERNATIVES
             /\ FirstResolved(env, COMMAND_ALTERNATIVES[base_cmd]) # NotFound
          THEN FirstResolved(env, COMMAND_ALTERNATIVES[base_cmd])
          ELSE command

\* A normalisation that rebuilds the descriptor from name, command and args
\* only, so that env falls back to its default.
normalize_server_configDropsEnv(env, config) ==
  [name |-> config.name, command |-> resolve_command(env, config.command),
   args |-> config.args, env |-> << >>]

\* CommandResolver.normalize_server_config
normalize_server_config(env, config) ==
  [name |-> config.name, command |-> resolve_command(env, config.command),
   args |-> config.args, env |-> config.env]

\* ------------------------------------------------- configuration texts
\* The configuration texts a request may carry.  Each name stands for one
\* byte string; JsonLoads gives what json.loads makes of it.
\*   cfgA      {"mcpServers": {"a": {"command": "npx", "args": ["-y", "pkg"]}}}
\*   cfgB      {"mcpServers": {"a": {"command": "npx"},
\*                             "b": {"command": "uvx", "env": {"KEY": "v"}}}}
\*   cfgBad    not json
\*   cfgNoKey  {"servers": {}}
\*   cfgNoCmd  {"mcpServers": {"a": {"command": "npx"}, "b": {"args": []}}}
\*   cfgNull   null
\*   ""        the empty text
ConfigTexts == {"cfgA", "cfgB", "cfgBad", "cfgNoKey", "cfgNoCmd", "cfgNull", ""}

NoArgs == << >>
NoEnv == << >>

\* What json.loads returns is described by the Python type of the value
\* (kind), by what the 'in' operator answers for the key, and, for an object,
\* by its items in the order of the text.
\* A server definition that is an object: has_* tells whether the key is there.
ServerDef(name, has_command, command, has_args, args, has_env, env) ==
  [name |-> name, kind |-> "dict", has_command |-> has_command, command |-> command,
   has_args |-> has_args, args |-> args, has_env |-> has_env, env |-> env]

\* A server definition that is null, a number, an array or a string;
\* has_command is what '"command" in server_config' answers for an array
\* (an element) or a string (a substring).
OtherDef(name, kind, has_command) ==
  [name |-> name, kind |-> kind, has_command |-> has_command, command |-> "",
   has_args |-> FALSE, args |-> NoArgs, has_env |-> FALSE, env |-> NoEnv]

\* A decoded text: the type of the top-level value, what '"mcpServers" in
\* config_data' answers, the type of config_data["mcpServers"] and its items.
Decoded(kind, has_mcpServers, servers_kind, mcpServers) ==
  [ok |-> TRUE, decode_error |-> "", kind |-> kind, has_mcpServers |-> has_mcpServers,
   servers_kind |-> servers_kind, mcpServers |-> mcpServers]

\* A text json.loads rejects with JSONDecodeError.
NotDecoded(decode_error) ==
  [ok |-> FALSE, decode_error |-> decode_error, kind |-> "", has_mcpServers |-> FALSE,
   servers_kind |-> "", mcpServers |-> << >>]

JsonLoads(config_json) ==
  CASE config_json = "cfgA" ->
         Decoded("dict", TRUE, "dict",
           << ServerDef("a", TRUE, "npx", TRUE, <<"-y", "pkg">>, FALSE, NoEnv) >>)
    [] config_json = "cfgB" ->
         Decoded("dict", TRUE, "dict",
           << ServerDef("a", TRUE, "npx", FALSE, NoArgs, FALSE, NoEnv),
              ServerDef("b", TRUE, "uvx", FALSE, NoArgs, TRUE, << <<"KEY", "v">> >>) >>)
    [] config_json = "cfgNoKey" -> Decoded("dict", FALSE, "", << >>)
    [] config_json = "cfgNoCmd" ->
         Decoded("dict", TRUE, "dict",
           << ServerDef("a", TRUE, "npx", FALSE, NoArgs, FALSE, NoEnv),
              ServerDef("b", FALSE, "", TRUE, NoArgs, FALSE, NoEnv) >>)
    [] config_json = "cfgNull" -> Decoded("NoneType", FALSE, "", << >>)
    [] OTHER -> NotDecoded("Expecting value: line 1 column 1 (char 0)")

\* hashlib.md5(config_json.encode()).hexdigest(): the digest of each text
\* (the texts of this set have pairwise distinct digests).
get_config_hash(config_json) ==
  CASE config_json = "cfgA" -> "md5:7a1c"
    [] config_json = "cfgB" -> "md5:03e9"
    [] config_json = "cfgBad" -> "md5:c5f2"
    [] config_json = "cfgNoKey" -> "md5:4b80"
    [] config_json = "cfgNoCmd" -> "md5:e11d"
    [] config_json = "cfgNull" -> "md5:37a6"
    [] OTHER -> "md5:d41d"

Digests == { get_config_hash(c) : c \in ConfigTexts }

\* What parse_config does: it returns the descriptors, or raises.
ParseOk(servers) == [ok |-> TRUE, servers |-> servers, error |-> "", exception |-> ""]
ParseRaise(exception, error) ==
  [ok |-> FALSE, servers |-> << >>, error |-> error, exception |-> exception]

\* The Python types whose values answer the 'in' operator; of these only a
\* dict can be subscripted by a string and has .items().
Containers == {"dict", "list", "str"}

\* The loop of ConfigParser.parse_config over the server definitions: ValueError
\* at the first one without 'command'; args and env default to [] and {}.  A
\* definition that is not an object makes the 'in' test or the subscript raise
\* TypeError.
RECURSIVE ParseServers(_, _, _)
ParseServers(env, defs, auto_resolve) ==
  IF defs = << >> THEN ParseOk(<< >>)
  ELSE LET d == Head(defs)
           config_obj == [name |-> d.name, command |-> d.command,
                          args |-> IF d.has_args THEN d.args ELSE NoArgs,
                          env |-> IF d.has_env THEN d.env ELSE NoEnv]
           stored == IF auto_resolve THEN normalize_server_config(env, config_obj)
                     ELSE config_obj
           rest == ParseServers(env, Tail(defs), auto_resolve)
       IN IF d.kind \notin Containers
          THEN ParseRaise("TypeError",
                          "argument of type '" \o d.kind \o "' is not iterable")
          ELSE IF ~d.has_command
          THEN ParseRaise("ValueError",
                          "Server '" \o d.name \o "' missing required 'command' field")
          ELSE IF d.kind # "dict"
          THEN ParseRaise("TypeError", d.kind \o " indices must be integers")
          ELSE IF ~rest.ok THEN rest
          ELSE ParseOk(<< stored >> \o rest.servers)

\* ConfigParser.parse_config after json.loads: ValueError when the text did not
\* decode, when 'mcpServers' is absent, or when a server has no 'command';
\* otherwise the descriptors in the order of the decoded mapping.  A decoded
\* value of another type than the code expects makes the operation applied to
\* it raise TypeError or AttributeError.
ParseConfigData(env, config_data, auto_resolve) ==
  IF ~config_data.ok
  THEN ParseRaise("ValueError", "Invalid JSON: " \o config_data.decode_error)
  ELSE IF config_data.kind \notin Containers
  THEN ParseRaise("TypeError",
                  "argument of type '" \o config_data.kind \o "' is not iterable")
  ELSE IF ~config_data.has_mcpServers
  THEN ParseRaise("ValueError", "Configuration must contain 'mcpServers' key")
  ELSE IF config_data.kind # "dict"
  THEN ParseRaise("TypeError", config_data.kind \o " indices must be integers")
  ELSE IF config_data.servers_kind # "dict"
  THEN ParseRaise("AttributeError",
                  "'" \o config_data.servers_kind \o "' object has no attribute 'items'")
  ELSE ParseServers(env, config_data.mcpServers, auto_resolve)

\* ConfigParser.parse_config
parse_config(env, config_json, auto_resolve) ==
  ParseConfigData(env, JsonLoads(config_json), auto_resolve)

\* --------------------------------------------- parse_config on its own
\* The hosts parse_config may run on.  What shutil.which finds is a file.
MakeEnv(platform, on_path, files) ==
  [platform |-> platform, username |-> "dev",
   files |-> files \cup { "/usr/bin/" \o c : c \in on_path },
   on_path |-> on_path]

ResolverEnvs ==
  { HostEnv,
    MakeEnv("linux", {}, {}),
    MakeEnv("linux", {"npm", "uvx"}, {}),
    MakeEnv("win32", {}, {"C:/Users/dev/AppData/Roaming/npm/npx.cmd"}),
    MakeEnv("win32", {"npx"},
            {"C:/Users/dev/AppData/Local/Programs/Python/Python313/Scripts/uv.exe"}),
    MakeEnv("linux", {"uv"}, {"npx"}) }

\* The server definitions of the decoded texts: objects with or without
\* 'command' (possibly the empty string), 'args' and 'env', and values that
\* are no objects (null, a number, the array [], the string "command").
DefShapes ==
  { ServerDef("", has_command, IF has_command THEN command ELSE "",
              has_args, IF has_args THEN <<"-y", "pkg">> ELSE NoArgs,
              has_env, IF has_env THEN << <<"KEY", "v">> >> ELSE NoEnv) :
      has_command \in BOOLEAN, command \in {"", "npx", "UVX"},
      has_args \in BOOLEAN, has_env \in BOOLEAN }
  \cup { OtherDef("", "NoneType", FALSE), OtherDef("", "int", FALSE),
         OtherDef("", "list", FALSE), OtherDef("", "str", TRUE) }

\* The keys of the 'mcpServers' object, in the order of the text.
ServerKey(i) == CASE i = 1 -> "a" [] i = 2 -> "b" [] i = 3 -> "c" [] OTHER -> "d"

ServerItems ==
  UNION { { [i \in 1..n |-> [f[i] EXCEPT !.name = ServerKey(i)]] :
            f \in [1..n -> DefShapes] } : n \in 0..MaxServers }

\* What json.loads makes of the texts parse_config is given: no value at all,
\* a value that is no object, an object without 'mcpServers', an object whose
\* 'mcpServers' is no object, and the objects with up to MaxServers servers.
DecodedTexts ==
  { NotDecoded("Expecting value: line 1 column 1 (char 0)") }
  \cup { Decoded(kind, has, "", << >>) : kind \in {"list", "str"}, has \in BOOLEAN }
  \cup { Decoded(kind, FALSE, "", << >>) : kind \in {"int", "NoneType", "dict"} }
  \cup { Decoded("dict", TRUE, kind, << >>) : kind \in {"list", "str", "int", "NoneType"} }
  \cup { Decoded("dict", TRUE, "dict", items) : items \in ServerItems }

ConfigInputs ==
  [env : ResolverEnvs, config_data : DecodedTexts, auto_resolve : BOOLEAN]

ServerNamesOf(servers) == [i \in 1..Len(servers) |-> servers[i].name]


\* ------------------------------------------------------------ tool schema
\* The 'tools' field of a query request: per server, the names of its tools,
\* in the order of the request's mapping.
AvailChoices ==
  { << >>,
    << [server |-> "a", tools |-> <<"t", "u">>], [server |-> "b", tools |-> <<"t">>] >> }

\* f"{server_name}_{tool['name']}"
FunctionName(server_name, tool_name) == server_name \o "_" \o tool_name

\* The (server, tool) pairs in the order the two nested loops of
\* build_tools_schema visit them.
RECURSIVE ToolPairs(_)
ToolPairs(available_tools) ==
  IF available_tools = << >> THEN << >>
  ELSE LET e == Head(available_tools)
       IN [i \in 1..Len(e.tools) |-> [server |-> e.server, tool |-> e.tools[i]]]
          \o ToolPairs(Tail(available_tools))

\* build_tools_schema: one schema entry per pair, and the mapping from the
\* function name to the pair (a later pair of the same name overwrites).
build_tools_schema(available_tools) ==
  LET pairs == ToolPairs(available_tools)
      name(i) == FunctionName(pairs[i].server, pairs[i].tool)
      names == { name(i) : i \in 1..Len(pairs) }
      last(f) == CHOOSE i \in 1..Len(pairs) :
                   /\ name(i) = f
                   /\ \A j \in 1..Len(pairs) : name(j) = f => j <= i
  IN [tools_for_openai |-> [i \in 1..Len(pairs) |-> name(i)],
      tool_mapping |-> [f \in names |-> pairs[last(f)]]]

\* What the model may put in a requested call: a function name (of the schema
\* or not) and an argument string (decodable or not).
JsonArgsOk(arguments) == arguments = "{}"

\* The provider gives each call of one response its own id.
CallId(i) == CASE i = 1 -> "call_1" [] i = 2 -> "call_2" [] i = 3 -> "call_3"
               [] OTHER -> "call_4"

CallShapes ==
  { [name |-> "a_t", arguments |-> "{}"], [name |-> "a_t", arguments |-> "{bad"],
    [name |-> "b_t", arguments |-> "{}"], [name |-> "nope", arguments |-> "{}"] }

\* The tool-call lists a first response may carry (None or empty: << >>).
ToolCallLists ==
  UNION { { [i \in 1..n |-> [id |-> CallId(i), name |-> c[i].name,
                             arguments |-> c[i].arguments]] :
            c \in [1..n -> CallShapes] } : n \in 0..MaxCalls }

\* The text a tool server answers a call with (its own for every call).
ToolOutput(server, tool, id) == server \o "/" \o tool \o "#" \o id

Placeholder == "Tool execution failed or returned no result."
SystemPrompt ==
  "You are a helpful AI assistant with access to MCP tools. Use the available tools to answer user questions accurately. When using tools, provide clear explanations of what you found."
UserQuery == "user query"
Round1Content == "first response"
Round2Content == "final response"


\* ------------------------------------------------- results of a tool batch
\* What one execute_tool_call coroutine left in the list asyncio.gather
\* returns: its dictionary, None, or the exception it raised.
NewTask == [kind |-> "new", tool_call_id |-> "", content |-> "", server |-> "", tool |-> ""]
RunningTask(server, tool) ==
  [kind |-> "running", tool_call_id |-> "", content |-> "", server |-> server, tool |-> tool]
ExceptionItem == [kind |-> "Exception", tool_call_id |-> "", content |-> "", server |-> "", tool |-> ""]
NoneItem == [kind |-> "None", tool_call_id |-> "", content |-> "", server |-> "", tool |-> ""]
DictItem(id, content, server, tool) ==
  [kind |-> "dict", tool_call_id |-> id, content |-> content, server |-> server, tool |-> tool]

Finished(item) == item.kind \in {"dict", "None", "Exception"}

\* results_by_id: exceptions and None are skipped, a later item of the same id
\* overwrites an earlier one.
ResultsByIdKeys(tool_results_raw) ==
  { tool_results_raw[i].tool_call_id :
      i \in { j \in 1..Len(tool_results_raw) : tool_results_raw[j].kind = "dict" } }

\* A lookup that ignores the id and takes the last result of the batch.
ResultsByIdLastResult(tool_results_raw, id) ==
  LET hits == { j \in 1..Len(tool_results_raw) : tool_results_raw[j].kind = "dict" }
  IN tool_results_raw[CHOOSE j \in hits : \A k \in hits : k <= j]

ResultsById(tool_results_raw, id) ==
  LET hits == { j \in 1..Len(tool_results_raw) :
                  /\ tool_results_raw[j].kind = "dict"
                  /\ tool_results_raw[j].tool_call_id = id }
  IN tool_results_raw[CHOOSE j \in hits : \A k \in hits : k <= j]

\* The tool message built for one requested call.
ToolMessage(tc, tool_results_raw) ==
  IF tc.id \in ResultsByIdKeys(tool_results_raw)
  THEN LET r == ResultsById(tool_results_raw, tc.id)
       IN [role |-> "tool", tool_call_id |-> r.tool_call_id, content |-> r.content]
  ELSE [role |-> "tool", tool_call_id |-> tc.id, content |-> Placeholder]

\* A message list without the placeholder branch: calls without a result get
\* no message.
RECURSIVE ToolResultsNoPlaceholder(_, _)
ToolResultsNoPlaceholder(tool_calls, tool_results_raw) ==
  IF tool_calls = << >> THEN << >>
  ELSE LET rest == ToolResultsNoPlaceholder(Tail(tool_calls), tool_results_raw)
       IN IF Head(tool_calls).id \in ResultsByIdKeys(tool_results_raw)
          THEN << ToolMessage(Head(tool_calls), tool_results_raw) >> \o rest
          ELSE rest

\* A message list that puts the messages of the results first and appends the
\* placeholders of the calls without a result.
IsPlaceholder(m) == m.content = Placeholder
IsNoPlaceholder(m) == m.content # Placeholder
ToolResultsResultsFirst(tool_calls, tool_results_raw) ==
  LET all == [i \in 1..Len(tool_calls) |-> ToolMessage(tool_calls[i], tool_results_raw)]
  IN SelectSeq(all, IsNoPlaceholder) \o SelectSeq(all, IsPlaceholder)

\* tool_results: one message per requested call, in the order of the request.
ToolResults(tool_calls, tool_results_raw) ==
  [i \in 1..Len(tool_calls) |-> ToolMessage(tool_calls[i], tool_results_raw)]

\* tool_calls_made: the (server, tool) pair of every call that has a result.
RECURSIVE ToolCallsMade(_, _)
ToolCallsMade(tool_calls, tool_results_raw) ==
  IF tool_calls = << >> THEN << >>
  ELSE LET tc == Head(tool_calls)
           rest == ToolCallsMade(Tail(tool_calls), tool_results_raw)
       IN IF tc.id \in ResultsByIdKeys(tool_results_raw)
          THEN LET r == ResultsById(tool_results_raw, tc.id)
               IN << [server |-> r.server, tool |-> r.tool] >> \o rest
          ELSE rest

\* The conversation of round 1 and the one of round 2.
Round1Messages(user_query) ==
  << [role |-> "system", content |-> SystemPrompt],
     [role |-> "user", content |-> user_query] >>

AssistantDict(content, tool_calls) ==
  [role |-> "assistant", content |-> content, tool_calls |-> tool_calls]

Round2Messages(user_query, content, tool_calls, tool_results_raw) ==
  Round1Messages(user_query) \o << AssistantDict(content, tool_calls) >>
                 \o ToolResults(tool_calls, tool_results_raw)

\* The 'tools' argument of a model call: the schema, or None when it is empty
\* (round 1) or not passed at all (round 2).
ToolsArg(tools_for_openai) ==
  IF tools_for_openai # << >> THEN [given |-> TRUE, tools |-> tools_for_openai]
  ELSE [given |-> FALSE, tools |-> << >>]
NoToolsArg == [given |-> FALSE, tools |-> << >>]

\* ---------------------------------------------------------------- results
\* What a handler returns.  A query fills response and tool_calls, list-tools
\* fills data, clear-cache fills message, execute-tool fills result, a failure
\* fills error.
NoData == [servers |-> << >>, tools |-> << >>, total_tools |-> 0, server_count |-> 0]
NoToolResult == [content |-> << >>, isError |-> FALSE]
\* No call_tool has returned.
NoCallToolResult == [content |-> << >>, has_isError |-> FALSE, isError |-> FALSE, str |-> ""]
Success(response, tool_calls_made) ==
  [success |-> TRUE, response |-> response, tool_calls |-> tool_calls_made,
   error |-> "", message |-> "", data |-> NoData, result |-> NoToolResult]
ListSuccess(data) ==
  [success |-> TRUE, response |-> "", tool_calls |-> << >>,
   error |-> "", message |-> "", data |-> data, result |-> NoToolResult]
ClearSuccess ==
  [success |-> TRUE, response |-> "", tool_calls |-> << >>,
   error |-> "", message |-> "Cache cleared successfully", data |-> NoData,
   result |-> NoToolResult]
ExecSuccess(tool_result) ==
  [success |-> TRUE, response |-> "", tool_calls |-> << >>,
   error |-> "", message |-> "", data |-> NoData, result |-> tool_result]
Failure(error) ==
  [success |-> FALSE, response |-> "", tool_calls |-> << >>,
   error |-> error, message |-> "", data |-> NoData, result |-> NoToolResult]
NoResult == Failure("(no result yet)")

\* ------------------------------------------------------------------ state
VARIABLES
  cache,        \* _connection_cache: digest -> (lister, servers), or no entry
  listers,      \* the MCPToolLister objects made so far (key: the digest each was made for)
  nreq,         \* requests started so far
  pc,           \* where each thread's handler is
  req,          \* the request a thread is handling
  entry,        \* the (lister, servers) pair get_or_create_connection returned to it
  assistant,    \* process_ai_query: assistant_message (content, tool_calls)
  tasks,        \* process_ai_query: the batch handed to asyncio.gather, by position
  doneOrder,    \* the order in which the calls of the batch completed
  modelLog,     \* the chat-completion calls a query made: their arguments
  toolLog,      \* the call_tool invocations a query made
  raised,       \* where the exception the handler caught came from
  citer,        \* clear_cache: the dictionary iterator
  lstate,       \* fetch_tools: the loop index, all_tools and the turns whose discovery failed
  result,       \* what the handler returned
  xclose,       \* execute_mcp_tool: what its finally clause did
  cin,          \* a call of ConfigParser.parse_config on its own: the arguments
  cout,         \* and what it returned or raised
  fin,          \* a call of one of the other pure functions: function and arguments
  fout,         \* and what it returned
  xraw          \* execute_mcp_tool: what call_tool returned

vars == << cache, listers, nreq, pc, req, entry, assistant, tasks,
           doneOrder, modelLog, toolLog, raised, citer, lstate, result,
           xclose, cin, cout, fin, fout, xraw >>

qvars == << assistant, tasks, doneOrder, modelLog, toolLog >>

ListerIds == 1..MaxRequests

\* The next lister object: listers are numbered in the order they are made.
NewListerId == 1 + Cardinality({ l \in ListerIds : listers[l].made })

NoEntry == [lister |-> 0, servers |-> << >>]
NoLister ==
  [made |-> FALSE, key |-> "", client |-> FALSE, server_names |-> << >>, sessions |-> {}]
\* is_configured: what OpenAIConfig.is_configured() answers while the request
\* is handled (asked by the query route only).
NoRequest ==
  [kind |-> "none", config |-> "", query |-> "", tools |-> << >>,
   server_name |-> "", tool_name |-> "", is_configured |-> TRUE]
NoAssistant == [content |-> "", tool_calls |-> << >>]
NoIter == [used |-> 0, visited |-> {}]
NoList == [index |-> 0, all_tools |-> << >>, failed |-> {}]

CachedKeys == { h \in Digests : cache[h] # NoEntry }

\* The server after start-up: an empty cache, no lister, idle threads.
ServerInit ==
  /\ cache = [h \in Digests |-> NoEntry]
  /\ listers = [l \in ListerIds |-> NoLister]
  /\ nreq = 0
  /\ pc = [t \in Threads |-> "idle"]
  /\ req = [t \in Threads |-> NoRequest]
  /\ entry = [t \in Threads |-> NoEntry]
  /\ assistant = [t \in Threads |-> NoAssistant]
  /\ tasks = [t \in Threads |-> << >>]
  /\ doneOrder = [t \in Threads |-> << >>]
  /\ modelLog = [t \in Threads |-> << >>]
  /\ toolLog = [t \in Threads |-> << >>]
  /\ raised = [t \in Threads |-> ""]
  /\ citer = [t \in Threads |-> NoIter]
  /\ lstate = [t \in Threads |-> NoList]
  /\ result = [t \in Threads |-> NoResult]
  /\ xclose = [t \in Threads |-> ""]
  /\ xraw = [t \in Threads |-> NoCallToolResult]

NoInput == [env |-> HostEnv, config_data |-> NotDecoded(""), auto_resolve |-> TRUE]
NoOutput == ParseRaise("", "")

\* No pure function is being called.
NoCall ==
  [op |-> "", env |-> HostEnv, command |-> "", servers |-> << >>,
   available_tools |-> << >>]
NoReturn == [returned |-> FALSE, value |-> << >>]

Init ==
  /\ ServerInit
  /\ cin = NoInput
  /\ cout = NoOutput
  /\ fin = NoCall
  /\ fout = NoReturn

\* The handler of thread t returns r.
Return(t, r) ==
  /\ result' = [result EXCEPT ![t] = r]
  /\ pc' = [pc EXCEPT ![t] = "done"]

\* The except clauses of the handler of thread t catch an exception of the
\* given kind whose str() is msg.
\*   process_ai_query: except Exception -> error str(e)
\*   fetch_tools: except ValueError -> 'Configuration error: ...';
\*                except Exception -> error str(e)
\* A handler whose only except clause is 'except ValueError': any other
\* exception leaves it.
CatchValueErrorOnly(t, kind, msg) ==
  /\ raised' = [raised EXCEPT ![t] = kind]
  /\ IF kind = "ValueError"
     THEN Return(t, Failure(msg))
     ELSE /\ pc' = [pc EXCEPT ![t] = "escaped"]
          /\ UNCHANGED result

Catch(t, kind, msg) ==
  /\ raised' = [raised EXCEPT ![t] = kind]
  /\ Return(t, IF req[t].kind = "list" /\ kind = "ValueError"
               THEN Failure("Configuration error: " \o msg)
               ELSE Failure(msg))

\* ------------------------------------------------- POST /api/query (query)
\* The query texts a request may carry: a question, or nothing.
UserQueries == {UserQuery, ""}

\* A route that does not ask whether the provider has credentials.
StartQueryNoCredentialCheck(t) ==
  \E cfg \in ConfigTexts, user_query \in UserQueries, av \in AvailChoices,
     is_configured \in BOOLEAN :
    /\ pc[t] = "idle"
    /\ nreq' = nreq + 1
    /\ req' = [req EXCEPT ![t] = [kind |-> "query", config |-> cfg,
                                  query |-> user_query, tools |-> av,
                                  server_name |-> "", tool_name |-> "",
                                  is_configured |-> is_configured]]
    /\ IF FALSE
       THEN Return(t, Failure("OpenAI API key not configured. Please set OPENAI_API_KEY environment variable."))
       ELSE IF cfg = "" \/ user_query = ""
       THEN Return(t, Failure("Missing config or query"))
       ELSE /\ pc' = [pc EXCEPT ![t] = "q_round1"]
            /\ UNCHANGED result
    /\ UNCHANGED << cache, listers, entry, qvars, raised, citer, lstate >>
    /\ UNCHANGED << xclose, cin, cout, fin, fout, xraw >>

\* The route: the credentials are checked first, then the two fields; only
\* then process_ai_query runs.
StartQuery(t) ==
  \E cfg \in ConfigTexts, user_query \in UserQueries, av \in AvailChoices,
     is_configured \in BOOLEAN :
    /\ pc[t] = "idle"
    /\ nreq' = nreq + 1
    /\ req' = [req EXCEPT ![t] = [kind |-> "query", config |-> cfg,
                                  query |-> user_query, tools |-> av,
                                  server_name |-> "", tool_name |-> "",
                                  is_configured |-> is_configured]]
    /\ IF ~is_configured
       THEN Return(t, Failure("OpenAI API key not configured. Please set OPENAI_API_KEY environment variable."))
       ELSE IF cfg = "" \/ user_query = ""
       THEN Return(t, Failure("Missing config or query"))
       ELSE /\ pc' = [pc EXCEPT ![t] = "q_round1"]
            /\ UNCHANGED result
    /\ UNCHANGED << cache, listers, entry, qvars, raised, citer, lstate >>
    /\ UNCHANGED << xclose, cin, cout, fin, fout, xraw >>

\* A first round that goes on to the tool batch whenever tool_calls is not None,
\* the empty list included.
Round1IgnoresEmpty(t) ==
  /\ pc[t] = "q_round1"
  /\ LET schema == build_tools_schema(req[t].tools)
     IN modelLog' = [modelLog EXCEPT ![t] =
          Append(@, [tools |-> ToolsArg(schema.tools_for_openai),
                     messages |-> Round1Messages(req[t].query)])]
  /\ \/ /\ Catch(t, "round1", "model call failed")
        /\ UNCHANGED << assistant, tasks >>
     \/ \E tcs \in ToolCallLists :
          /\ assistant' = [assistant EXCEPT ![t] =
                             [content |-> Round1Content, tool_calls |-> tcs]]
          /\ tasks' = [tasks EXCEPT ![t] = [i \in 1..Len(tcs) |-> NewTask]]
          /\ pc' = [pc EXCEPT ![t] = "goc"]
          /\ UNCHANGED result
          /\ UNCHANGED raised
  /\ UNCHANGED << cache, listers, nreq, req, entry, doneOrder,
                  toolLog, citer, lstate >>
  /\ UNCHANGED << xclose, cin, cout, fin, fout, xraw >>

\* process_ai_query up to the first model response: the schema is built and
\* the model is called with it; the call raises or answers.
Round1(t) ==
  /\ pc[t] = "q_round1"
  /\ LET schema == build_tools_schema(req[t].tools)
     IN modelLog' = [modelLog EXCEPT ![t] =
          Append(@, [tools |-> ToolsArg(schema.tools_for_openai),
                     messages |-> Round1Messages(req[t].query)])]
  /\ \/ /\ Catch(t, "round1", "model call failed")
        /\ UNCHANGED << assistant, tasks >>
     \/ \E tcs \in ToolCallLists :
          /\ assistant' = [assistant EXCEPT ![t] =
                             [content |-> Round1Content, tool_calls |-> tcs]]
          /\ tasks' = [tasks EXCEPT ![t] = [i \in 1..Len(tcs) |-> NewTask]]
          /\ IF tcs = << >>
             THEN Return(t, Success(Round1Content, << >>))
             ELSE /\ pc' = [pc EXCEPT ![t] = "goc"]
                  /\ UNCHANGED result
          /\ UNCHANGED raised
  /\ UNCHANGED << cache, listers, nreq, req, entry, doneOrder,
                  toolLog, citer, lstate >>
  /\ UNCHANGED << xclose, cin, cout, fin, fout, xraw >>

\* ------------------------------------------------ get_or_create_connection
\* Where the caller goes on once it has its (lister, servers) pair.
AfterConnection(t) == IF req[t].kind = "query" THEN "q_tasks" ELSE "l_tools"

\* A get_or_create_connection that never finds its key in the cache.
GetOrCreateNoLookup(t) ==
  /\ pc[t] = "goc"
  /\ LET config_hash == get_config_hash(req[t].config)
         parsed == parse_config(HostEnv, req[t].config, TRUE)
     IN IF FALSE
        THEN /\ entry' = [entry EXCEPT ![t] = cache[config_hash]]
             /\ pc' = [pc EXCEPT ![t] = AfterConnection(t)]
             /\ UNCHANGED << listers, raised, result >>
        ELSE IF ~parsed.ok
        THEN /\ Catch(t, parsed.exception, parsed.error)
             /\ UNCHANGED << listers, entry >>
        ELSE /\ listers' = [listers EXCEPT ![NewListerId] =
                              [made |-> TRUE, key |-> config_hash, client |-> TRUE,
                               server_names |-> ServerNamesOf(parsed.servers),
                               sessions |-> {}]]
             /\ entry' = [entry EXCEPT ![t] =
                              [lister |-> NewListerId, servers |-> parsed.servers]]
             /\ pc' = [pc EXCEPT ![t] = "connecting"]
             /\ UNCHANGED << raised, result >>
  /\ UNCHANGED << cache, nreq, req, qvars, citer, lstate >>
  /\ UNCHANGED << xclose, cin, cout, fin, fout, xraw >>

\* A get_or_create_connection under one process-wide lock that is held while
\* the connections are opened: it waits while another thread is opening its own.
GetOrCreateGlobalLock(t) ==
  /\ pc[t] = "goc"
  /\ \A u \in Threads \ {t} : pc[u] # "connecting"
  /\ LET config_hash == get_config_hash(req[t].config)
         parsed == parse_config(HostEnv, req[t].config, TRUE)
     IN IF cache[config_hash] # NoEntry
        THEN /\ entry' = [entry EXCEPT ![t] = cache[config_hash]]
             /\ pc' = [pc EXCEPT ![t] = AfterConnection(t)]
             /\ UNCHANGED << listers, raised, result >>
        ELSE IF ~parsed.ok
        THEN /\ Catch(t, parsed.exception, parsed.error)
             /\ UNCHANGED << listers, entry >>
        ELSE /\ listers' = [listers EXCEPT ![NewListerId] =
                              [made |-> TRUE, key |-> config_hash, client |-> TRUE,
                               server_names |-> ServerNamesOf(parsed.servers),
                               sessions |-> {}]]
             /\ entry' = [entry EXCEPT ![t] =
                              [lister |-> NewListerId, servers |-> parsed.servers]]
             /\ pc' = [pc EXCEPT ![t] = "connecting"]
             /\ UNCHANGED << raised, result >>
  /\ UNCHANGED << cache, nreq, req, qvars, citer, lstate >>
  /\ UNCHANGED << xclose, cin, cout, fin, fout, xraw >>

\* The cache lookup; on a miss the configuration is parsed, a lister is made
\* and connect_to_servers runs up to its await.
GetOrCreate(t) ==
  /\ pc[t] = "goc"
  /\ LET config_hash == get_config_hash(req[t].config)
         parsed == parse_config(HostEnv, req[t].config, TRUE)
     IN IF cache[config_hash] # NoEntry
        THEN /\ entry' = [entry EXCEPT ![t] = cache[config_hash]]
             /\ pc' = [pc EXCEPT ![t] = AfterConnection(t)]
             /\ UNCHANGED << listers, raised, result >>
        ELSE IF ~parsed.ok
        THEN /\ Catch(t, parsed.exception, parsed.error)
             /\ UNCHANGED << listers, entry >>
        ELSE /\ listers' = [listers EXCEPT ![NewListerId] =
                              [made |-> TRUE, key |-> config_hash, client |-> TRUE,
                               server_names |-> ServerNamesOf(parsed.servers),
                               sessions |-> {}]]
             /\ entry' = [entry EXCEPT ![t] =
                              [lister |-> NewListerId, servers |-> parsed.servers]]
             /\ pc' = [pc EXCEPT ![t] = "connecting"]
             /\ UNCHANGED << raised, result >>
  /\ UNCHANGED << cache, nreq, req, qvars, citer, lstate >>
  /\ UNCHANGED << xclose, cin, cout, fin, fout, xraw >>

\* A get_or_create_connection that stores the pair before it awaits
\* connect_to_servers, so that a failed connection stays in the cache.
ConnectStoresFirst(t) ==
  /\ pc[t] = "connecting"
  /\ LET l == entry[t].lister
         all == Range(listers[l].server_names)
     IN /\ cache' = [cache EXCEPT ![get_config_hash(req[t].config)] = entry[t]]
        /\ \/ /\ listers' = [listers EXCEPT ![l].sessions = all]
              /\ pc' = [pc EXCEPT ![t] = AfterConnection(t)]
              /\ UNCHANGED << raised, result >>
           \/ \E opened \in SUBSET all :
                /\ opened # all
                /\ listers' = [listers EXCEPT ![l].sessions = opened]
                /\ Catch(t, "connect", "connection failed")
  /\ UNCHANGED << nreq, req, entry, qvars, citer, lstate >>
  /\ UNCHANGED << xclose, cin, cout, fin, fout, xraw >>

\* create_all_sessions returns and the pair is stored in the cache, or it
\* raises with some of the sessions already open.
Connect(t) ==
  /\ pc[t] = "connecting"
  /\ LET l == entry[t].lister
         all == Range(listers[l].server_names)
     IN \/ /\ listers' = [listers EXCEPT ![l].sessions = all]
           /\ cache' = [cache EXCEPT ![get_config_hash(req[t].config)] = entry[t]]
           /\ pc' = [pc EXCEPT ![t] = AfterConnection(t)]
           /\ UNCHANGED << raised, result >>
        \/ \E opened \in SUBSET all :
             /\ opened # all
             /\ listers' = [listers EXCEPT ![l].sessions = opened]
             /\ Catch(t, "connect", "connection failed")
             /\ UNCHANGED cache
  /\ UNCHANGED << nreq, req, entry, qvars, citer, lstate >>
  /\ UNCHANGED << xclose, cin, cout, fin, fout, xraw >>

\* ------------------------------------------------ the batch of tool calls
\* execute_tool_call up to its await: the arguments are decoded, the function
\* name is looked up, the session is fetched and call_tool is issued.  The
\* coroutines of the batch start in the order of the request.
\* An execute_tool_call that hands the argument string to call_tool as it is,
\* without decoding it first.
StartedItemNoDecode(t, tc) ==
  LET tool_mapping == build_tools_schema(req[t].tools).tool_mapping
      lister == listers[entry[t].lister]
  IN IF tc.name \notin DOMAIN tool_mapping THEN NoneItem
     ELSE LET server_name == tool_mapping[tc.name].server
              tool_name == tool_mapping[tc.name].tool
          IN IF ~lister.client THEN ExceptionItem
             ELSE IF server_name \notin lister.sessions THEN ExceptionItem
             ELSE RunningTask(server_name, tool_name)

StartedItem(t, tc) ==
  LET tool_mapping == build_tools_schema(req[t].tools).tool_mapping
      lister == listers[entry[t].lister]
  IN IF ~JsonArgsOk(tc.arguments) THEN ExceptionItem
     ELSE IF tc.name \notin DOMAIN tool_mapping THEN NoneItem
     ELSE LET server_name == tool_mapping[tc.name].server
              tool_name == tool_mapping[tc.name].tool
          IN IF ~lister.client THEN ExceptionItem
             ELSE IF server_name \notin lister.sessions THEN ExceptionItem
             ELSE RunningTask(server_name, tool_name)

StartTask(t) ==
  /\ pc[t] = "q_tasks"
  /\ \E i \in 1..Len(tasks[t]) :
       /\ tasks[t][i].kind = "new"
       /\ \A j \in 1..(i - 1) : tasks[t][j].kind # "new"
       /\ LET tc == assistant[t].tool_calls[i]
              item == StartedItem(t, tc)
          IN /\ tasks' = [tasks EXCEPT ![t][i] = item]
             /\ IF item.kind = "running"
                THEN /\ toolLog' = [toolLog EXCEPT ![t] =
                          Append(@, [id |-> tc.id, server |-> item.server,
                                     tool |-> item.tool])]
                     /\ UNCHANGED doneOrder
                ELSE /\ doneOrder' = [doneOrder EXCEPT ![t] = Append(@, i)]
                     /\ UNCHANGED toolLog
  /\ UNCHANGED << cache, listers, nreq, pc, req, entry, assistant,
                  modelLog, raised, citer, lstate, result >>
  /\ UNCHANGED << xclose, cin, cout, fin, fout, xraw >>

\* A batch gathered without return_exceptions: the exception of a call reaches
\* the handler as soon as it is raised.
CompleteTaskPropagates(t) ==
  /\ pc[t] = "q_tasks"
  /\ \A j \in 1..Len(tasks[t]) : tasks[t][j].kind # "new"
  /\ \E i \in 1..Len(tasks[t]) :
       /\ tasks[t][i].kind = "running"
       /\ LET tc == assistant[t].tool_calls[i]
              cur == tasks[t][i]
          IN \/ /\ tasks' = [tasks EXCEPT ![t][i] =
                      DictItem(tc.id, ToolOutput(cur.server, cur.tool, tc.id),
                               cur.server, cur.tool)]
                /\ UNCHANGED << pc, raised, result >>
             \/ /\ tasks' = [tasks EXCEPT ![t][i] = ExceptionItem]
                /\ Catch(t, "tool", "tool call failed")
       /\ doneOrder' = [doneOrder EXCEPT ![t] = Append(@, i)]
  /\ UNCHANGED << cache, listers, nreq, req, entry, assistant,
                  modelLog, toolLog, citer, lstate >>
  /\ UNCHANGED << xclose, cin, cout, fin, fout, xraw >>

\* A call_tool that was issued returns its content, or raises.
CompleteTask(t) ==
  /\ pc[t] = "q_tasks"
  /\ \A j \in 1..Len(tasks[t]) : tasks[t][j].kind # "new"
  /\ \E i \in 1..Len(tasks[t]) :
       /\ tasks[t][i].kind = "running"
       /\ LET tc == assistant[t].tool_calls[i]
              cur == tasks[t][i]
          IN \/ tasks' = [tasks EXCEPT ![t][i] =
                   DictItem(tc.id, ToolOutput(cur.server, cur.tool, tc.id),
                            cur.server, cur.tool)]
             \/ tasks' = [tasks EXCEPT ![t][i] = ExceptionItem]
       /\ doneOrder' = [doneOrder EXCEPT ![t] = Append(@, i)]
  /\ UNCHANGED << cache, listers, nreq, pc, req, entry, assistant,
                  modelLog, toolLog, raised, citer, lstate, result >>
  /\ UNCHANGED << xclose, cin, cout, fin, fout, xraw >>

\* A second round that offers the tool schema again.
Round2WithSchema(t) ==
  /\ pc[t] = "q_tasks"
  /\ \A j \in 1..Len(tasks[t]) : Finished(tasks[t][j])
  /\ modelLog' = [modelLog EXCEPT ![t] =
       Append(@, [tools |-> ToolsArg(build_tools_schema(req[t].tools).tools_for_openai),
                  messages |-> Round2Messages(req[t].query, assistant[t].content,
                                              assistant[t].tool_calls, tasks[t])])]
  /\ \/ /\ Return(t, Success(Round2Content,
                            ToolCallsMade(assistant[t].tool_calls, tasks[t])))
        /\ UNCHANGED raised
     \/ Catch(t, "round2", "model call failed")
  /\ UNCHANGED << cache, listers, nreq, req, entry, assistant,
                  tasks, doneOrder, toolLog, citer, lstate >>
  /\ UNCHANGED << xclose, cin, cout, fin, fout, xraw >>


\* A second round that, when its model call fails, runs the batch of tool calls
\* again instead of giving up.
Round2RetriesBatch(t) ==
  /\ pc[t] = "q_tasks"
  /\ \A j \in 1..Len(tasks[t]) : Finished(tasks[t][j])
  /\ \/ /\ modelLog' = [modelLog EXCEPT ![t] =
             Append(@, [tools |-> NoToolsArg,
                        messages |-> Round2Messages(req[t].query, assistant[t].content,
                                                    assistant[t].tool_calls, tasks[t])])]
        /\ Return(t, Success(Round2Content,
                            ToolCallsMade(assistant[t].tool_calls, tasks[t])))
        /\ UNCHANGED << raised, tasks, doneOrder, toolLog >>
     \/ /\ tasks' = [tasks EXCEPT ![t] = [i \in 1..Len(tasks[t]) |-> NewTask]]
        /\ doneOrder' = [doneOrder EXCEPT ![t] = << >>]
        /\ toolLog' = [toolLog EXCEPT ![t] = << >>]
        /\ UNCHANGED << modelLog, raised, pc, result >>
  /\ UNCHANGED << cache, listers, nreq, req, entry, assistant, citer, lstate >>
  /\ UNCHANGED << xclose, cin, cout, fin, fout, xraw >>

\* asyncio.gather has returned: the tool messages are built, the conversation
\* is extended and the model is called again, without a schema.
Round2(t) ==
  /\ pc[t] = "q_tasks"
  /\ \A j \in 1..Len(tasks[t]) : Finished(tasks[t][j])
  /\ modelLog' = [modelLog EXCEPT ![t] =
       Append(@, [tools |-> NoToolsArg,
                  messages |-> Round2Messages(req[t].query, assistant[t].content,
                                              assistant[t].tool_calls, tasks[t])])]
  /\ \/ /\ Return(t, Success(Round2Content,
                            ToolCallsMade(assistant[t].tool_calls, tasks[t])))
        /\ UNCHANGED raised
     \/ Catch(t, "round2", "model call failed")
  /\ UNCHANGED << cache, listers, nreq, req, entry, assistant,
                  tasks, doneOrder, toolLog, citer, lstate >>
  /\ UNCHANGED << xclose, cin, cout, fin, fout, xraw >>


\* ------------------------------------------- POST /api/list-tools (fetch_tools)
\* The tools each tool server exposes.
ServerTools(name) == IF name = "a" THEN <<"t", "u">> ELSE <<"t">>

StartList(t) ==
  \E cfg \in ConfigTexts :
    /\ pc[t] = "idle"
    /\ nreq' = nreq + 1
    /\ req' = [req EXCEPT ![t] = [kind |-> "list", config |-> cfg,
                                  query |-> "", tools |-> << >>,
                                  server_name |-> "", tool_name |-> "", is_configured |-> TRUE]]
    /\ IF cfg = ""
       THEN Return(t, Failure("No configuration provided"))
       ELSE /\ pc' = [pc EXCEPT ![t] = "goc"]
            /\ UNCHANGED result
    /\ UNCHANGED << cache, listers, entry, qvars, raised, citer, lstate >>
    /\ UNCHANGED << xclose, cin, cout, fin, fout, xraw >>

\* One turn of 'for name in lister.server_names': get_tools_from_server(name),
\* which returns [] when the session cannot be had or list_tools raises; after
\* the last name the response is built.
ListData(t) ==
  [servers |-> ServerNamesOf(entry[t].servers),
   tools |-> lstate[t].all_tools,
   total_tools |-> SeqSum([i \in 1..Len(lstate[t].all_tools) |->
                              Len(lstate[t].all_tools[i].tools)]),
   server_count |-> Len(entry[t].servers)]

\* The tools get_tools_from_server returns: those the session lists, or []
\* when the session could not be had or list_tools raised.
DiscoveredTools(name, ok) == IF ok THEN ServerTools(name) ELSE << >>

\* A loop in which a failed discovery reaches the except clause of fetch_tools.
ListStepAborts(t) ==
  /\ pc[t] = "l_tools"
  /\ LET lister == listers[entry[t].lister]
         index == lstate[t].index
     IN IF index < Len(lister.server_names)
        THEN LET name == lister.server_names[index + 1]
             IN \E ok \in BOOLEAN :
                  /\ ok => (lister.client /\ name \in lister.sessions)
                  /\ lstate' = [lstate EXCEPT ![t] =
                       [index |-> index + 1,
                        all_tools |-> Append(@.all_tools,
                                             [server |-> name,
                                              tools |-> DiscoveredTools(name, ok)]),
                        failed |-> IF ok THEN @.failed ELSE @.failed \cup {index + 1}]]
                  /\ IF ok THEN UNCHANGED << pc, raised, result >>
                     ELSE Catch(t, "list_tools", "tool discovery failed")
        ELSE /\ Return(t, ListSuccess(ListData(t)))
             /\ UNCHANGED << lstate, raised >>
  /\ UNCHANGED << cache, listers, nreq, req, entry, qvars, citer >>
  /\ UNCHANGED << xclose, cin, cout, fin, fout, xraw >>

ListStep(t) ==
  /\ pc[t] = "l_tools"
  /\ LET lister == listers[entry[t].lister]
         index == lstate[t].index
     IN IF index < Len(lister.server_names)
        THEN LET name == lister.server_names[index + 1]
             IN /\ \E ok \in BOOLEAN :
                     /\ ok => (lister.client /\ name \in lister.sessions)
                     /\ lstate' = [lstate EXCEPT ![t] =
                          [index |-> index + 1,
                           all_tools |-> Append(@.all_tools,
                                                [server |-> name,
                                                 tools |-> DiscoveredTools(name, ok)]),
                           failed |-> IF ok THEN @.failed ELSE @.failed \cup {index + 1}]]
                /\ UNCHANGED << pc, result >>
        ELSE /\ Return(t, ListSuccess(ListData(t)))
             /\ UNCHANGED lstate
  /\ UNCHANGED << cache, listers, nreq, req, entry, qvars, raised,
                  citer >>
  /\ UNCHANGED << xclose, cin, cout, fin, fout, xraw >>

\* --------------------------------------- POST /api/clear-cache (clear_cache)
\* MCPToolLister.close_all_connections: with a client, the sessions are closed
\* (a failure is swallowed), the client is dropped and server_names emptied.
close_all_connections(lister, closed) ==
  IF lister.client
  THEN [lister EXCEPT !.client = FALSE, !.server_names = << >>,
                      !.sessions = IF closed THEN {} ELSE @]
  ELSE lister

StartClear(t) ==
  /\ pc[t] = "idle"
  /\ nreq' = nreq + 1
  /\ req' = [req EXCEPT ![t] = [kind |-> "clear", config |-> "", query |-> "",
                                tools |-> << >>,
                                server_name |-> "", tool_name |-> "", is_configured |-> TRUE]]
  /\ citer' = [citer EXCEPT ![t] = [used |-> Cardinality(CachedKeys), visited |-> {}]]
  /\ pc' = [pc EXCEPT ![t] = "c_iter"]
  /\ UNCHANGED << cache, listers, entry, qvars, raised, lstate, result >>
  /\ UNCHANGED << xclose, cin, cout, fin, fout, xraw >>

\* One turn of 'for config_hash, (lister, servers) in _connection_cache.items()':
\* the iterator raises RuntimeError when the dictionary changed size, else it
\* yields the next entry, whose lister is closed, or it is exhausted.
ClearStep(t) ==
  /\ pc[t] = "c_iter"
  /\ IF Cardinality(CachedKeys) # citer[t].used
     THEN /\ Catch(t, "RuntimeError", "dictionary changed size during iteration")
          /\ UNCHANGED << listers, citer >>
     ELSE IF CachedKeys \ citer[t].visited # {}
     THEN /\ \E h \in CachedKeys \ citer[t].visited, closed \in BOOLEAN :
               /\ listers' = [listers EXCEPT ![cache[h].lister] =
                                 close_all_connections(@, closed)]
               /\ citer' = [citer EXCEPT ![t].visited = @ \cup {h}]
          /\ UNCHANGED << pc, raised, result >>
     ELSE /\ pc' = [pc EXCEPT ![t] = "c_drop"]
          /\ UNCHANGED << listers, citer, raised, result >>
  /\ UNCHANGED << cache, nreq, req, entry, qvars, lstate >>
  /\ UNCHANGED << xclose, cin, cout, fin, fout, xraw >>

\* _connection_cache.clear() and the response.
ClearDrop(t) ==
  /\ pc[t] = "c_drop"
  /\ cache' = [h \in Digests |-> NoEntry]
  /\ Return(t, ClearSuccess)
  /\ UNCHANGED << listers, nreq, req, entry, qvars, raised, citer,
                  lstate >>
  /\ UNCHANGED << xclose, cin, cout, fin, fout, xraw >>

\* ------------------------------- POST /api/execute-tool (execute_mcp_tool)
\* The server and tool names a request may carry (possibly none, possibly
\* names no configuration or tool server knows).
ExecServerNames == {"a", "b", "zz", ""}
ExecToolNames == {"t", "zz", ""}

\* What call_tool may return.  An item of the content has a text attribute, a
\* data attribute, or neither; the result may lack the isError attribute.
TextItem(text) == [has_text |-> TRUE, text |-> text, has_data |-> FALSE, data |-> "", str |-> text]
DataItem(data) == [has_text |-> FALSE, text |-> "", has_data |-> TRUE, data |-> data, str |-> data]
OtherItem(str) == [has_text |-> FALSE, text |-> "", has_data |-> FALSE, data |-> "", str |-> str]

CallToolResult(content, has_isError, isError, str) ==
  [content |-> content, has_isError |-> has_isError, isError |-> isError, str |-> str]

\* A tool the server exposes answers with a result; a tool it does not know
\* is answered with an error result (the call may as well raise, see ExecCall).
ToolResultChoices(server_name, tool_name) ==
  IF tool_name \in Range(ServerTools(server_name))
  THEN { CallToolResult(<< TextItem("out") >>, FALSE, FALSE, "result(out)"),
         CallToolResult(<< TextItem("failed") >>, TRUE, TRUE, "result(failed)"),
         CallToolResult(<< >>, TRUE, TRUE, "result()"),
         CallToolResult(<< DataItem("blob"), OtherItem("item") >>, TRUE, FALSE,
                        "result(blob, item)") }
  ELSE { CallToolResult(<< TextItem("Unknown tool: " \o tool_name) >>, TRUE, TRUE,
                        "result(unknown)") }

\* One block of content_list.
ContentBlock(item) ==
  IF item.has_text THEN [type |-> "text", text |-> item.text, data |-> ""]
  ELSE IF item.has_data THEN [type |-> "resource", text |-> "", data |-> item.data]
  ELSE [type |-> "(str)", text |-> item.str, data |-> ""]

\* The 'result' of a successful execute_mcp_tool.
ExtractContent(r) ==
  IF r.content # << >>
  THEN [content |-> [i \in 1..Len(r.content) |-> ContentBlock(r.content[i])],
        isError |-> IF r.has_isError THEN r.isError ELSE FALSE]
  ELSE [content |-> << [type |-> "text", text |-> r.str, data |-> ""] >>,
        isError |-> FALSE]

\* The route: the three fields must be there.
StartExec(t) ==
  \E cfg \in ConfigTexts, server_name \in ExecServerNames, tool_name \in ExecToolNames :
    /\ pc[t] = "idle"
    /\ nreq' = nreq + 1
    /\ req' = [req EXCEPT ![t] = [kind |-> "exec", config |-> cfg, query |-> "",
                                  tools |-> << >>,
                                  server_name |-> server_name, tool_name |-> tool_name,
                                  is_configured |-> TRUE]]
    /\ IF cfg = ""
       THEN Return(t, Failure("No configuration provided"))
       ELSE IF server_name = ""
       THEN Return(t, Failure("No server_name provided"))
       ELSE IF tool_name = ""
       THEN Return(t, Failure("No tool_name provided"))
       ELSE /\ pc' = [pc EXCEPT ![t] = "x_parse"]
            /\ UNCHANGED result
    /\ UNCHANGED << cache, listers, entry, qvars, raised, citer, lstate,
                    xclose, cin, cout, fin, fout, xraw >>

\* An exception raised inside the inner try of execute_mcp_tool: the finally
\* clause runs, then 'except Exception' builds the response.
\* An inner try without the finally clause: the exception goes straight to the
\* except clause.
ExecRaiseNoFinally(t, kind, msg) ==
  /\ raised' = [raised EXCEPT ![t] = kind]
  /\ Return(t, Failure("Execution error: " \o msg))

ExecRaise(t, kind, msg) ==
  /\ raised' = [raised EXCEPT ![t] = kind]
  /\ result' = [result EXCEPT ![t] = Failure("Execution error: " \o msg)]
  /\ pc' = [pc EXCEPT ![t] = "x_close"]

\* An execute_mcp_tool that does not look the server name up in the
\* configuration before it connects.
ExecParseNoServerCheck(t) ==
  /\ pc[t] = "x_parse"
  /\ LET parsed == parse_config(HostEnv, req[t].config, TRUE)
         l == NewListerId
         made == [made |-> TRUE, key |-> "", client |-> TRUE,
                  server_names |-> ServerNamesOf(parsed.servers), sessions |-> {}]
     IN IF ~parsed.ok
        THEN /\ raised' = [raised EXCEPT ![t] = parsed.exception]
             /\ Return(t, Failure((IF parsed.exception = "ValueError"
                                   THEN "Configuration error: "
                                   ELSE "Execution error: ") \o parsed.error))
             /\ UNCHANGED << listers, entry >>
        ELSE /\ entry' = [entry EXCEPT ![t] = [lister |-> l, servers |-> parsed.servers]]
             /\ \/ /\ listers' = [listers EXCEPT ![l] = made]
                   /\ pc' = [pc EXCEPT ![t] = "x_connecting"]
                   /\ UNCHANGED << raised, result >>
                \/ /\ listers' = [listers EXCEPT ![l] = [made EXCEPT !.client = FALSE]]
                   /\ ExecRaise(t, "connect", "client construction failed")
  /\ UNCHANGED << cache, nreq, req, qvars, citer, lstate, xclose, cin, cout, fin, fout, xraw >>

\* An execute_mcp_tool that takes the lister of the cache when the
\* configuration text has an entry there.
ExecParseUsesCache(t) ==
  /\ pc[t] = "x_parse"
  /\ LET parsed == parse_config(HostEnv, req[t].config, TRUE)
         l == NewListerId
         made == [made |-> TRUE, key |-> "", client |-> TRUE,
                  server_names |-> ServerNamesOf(parsed.servers), sessions |-> {}]
     IN IF ~parsed.ok
        THEN /\ raised' = [raised EXCEPT ![t] = parsed.exception]
             /\ Return(t, Failure((IF parsed.exception = "ValueError"
                                   THEN "Configuration error: "
                                   ELSE "Execution error: ") \o parsed.error))
             /\ UNCHANGED << listers, entry >>
        ELSE IF req[t].server_name \notin Range(ServerNamesOf(parsed.servers))
        THEN /\ Return(t, Failure("Server \"" \o req[t].server_name
                                    \o "\" not found in configuration"))
             /\ UNCHANGED << listers, entry, raised >>
        ELSE IF cache[get_config_hash(req[t].config)] # NoEntry
        THEN /\ entry' = [entry EXCEPT ![t] = cache[get_config_hash(req[t].config)]]
             /\ pc' = [pc EXCEPT ![t] = "x_connecting"]
             /\ UNCHANGED << listers, raised, result >>
        ELSE /\ entry' = [entry EXCEPT ![t] = [lister |-> l, servers |-> parsed.servers]]
             /\ \/ /\ listers' = [listers EXCEPT ![l] = made]
                   /\ pc' = [pc EXCEPT ![t] = "x_connecting"]
                   /\ UNCHANGED << raised, result >>
                \/ /\ listers' = [listers EXCEPT ![l] = [made EXCEPT !.client = FALSE]]
                   /\ ExecRaise(t, "connect", "client construction failed")
  /\ UNCHANGED << cache, nreq, req, qvars, citer, lstate, xclose, cin, cout, fin, fout, xraw >>

\* execute_mcp_tool up to its first await: the configuration is parsed
\* (ValueError -> 'Configuration error: ...'), the server name is looked up, a
\* lister of its own is made and connect_to_servers builds the client.
ExecParse(t) ==
  /\ pc[t] = "x_parse"
  /\ LET parsed == parse_config(HostEnv, req[t].config, TRUE)
         l == NewListerId
         made == [made |-> TRUE, key |-> "", client |-> TRUE,
                  server_names |-> ServerNamesOf(parsed.servers), sessions |-> {}]
     IN IF ~parsed.ok
        THEN /\ raised' = [raised EXCEPT ![t] = parsed.exception]
             /\ Return(t, Failure((IF parsed.exception = "ValueError"
                                   THEN "Configuration error: "
                                   ELSE "Execution error: ") \o parsed.error))
             /\ UNCHANGED << listers, entry >>
        ELSE IF req[t].server_name \notin Range(ServerNamesOf(parsed.servers))
        THEN /\ Return(t, Failure("Server \"" \o req[t].server_name
                                    \o "\" not found in configuration"))
             /\ UNCHANGED << listers, entry, raised >>
        ELSE /\ entry' = [entry EXCEPT ![t] = [lister |-> l, servers |-> parsed.servers]]
             /\ \/ /\ listers' = [listers EXCEPT ![l] = made]
                   /\ pc' = [pc EXCEPT ![t] = "x_connecting"]
                   /\ UNCHANGED << raised, result >>
                \/ /\ listers' = [listers EXCEPT ![l] = [made EXCEPT !.client = FALSE]]
                   /\ ExecRaise(t, "connect", "client construction failed")
  /\ UNCHANGED << cache, nreq, req, qvars, citer, lstate, xclose, cin, cout, fin, fout, xraw >>

\* create_all_sessions returns, the session of the server is fetched and
\* call_tool is issued; or one of them raises.
ExecConnect(t) ==
  /\ pc[t] = "x_connecting"
  /\ LET l == entry[t].lister
         all == Range(listers[l].server_names)
     IN \/ /\ listers' = [listers EXCEPT ![l].sessions = all]
           /\ IF req[t].server_name \in all
              THEN /\ toolLog' = [toolLog EXCEPT ![t] =
                        Append(@, [id |-> "", server |-> req[t].server_name,
                                   tool |-> req[t].tool_name])]
                   /\ pc' = [pc EXCEPT ![t] = "x_calling"]
                   /\ UNCHANGED << raised, result >>
              ELSE /\ ExecRaise(t, "session", "no session for the server")
                   /\ UNCHANGED toolLog
        \/ \E opened \in SUBSET all :
             /\ opened # all
             /\ listers' = [listers EXCEPT ![l].sessions = opened]
             /\ ExecRaise(t, "connect", "connection failed")
             /\ UNCHANGED toolLog
  /\ UNCHANGED << cache, nreq, req, entry, assistant, tasks, doneOrder, modelLog,
                  citer, lstate, xclose, cin, cout, fin, fout, xraw >>

\* call_tool returns a result, whose content is extracted, or raises.
ExecCall(t) ==
  /\ pc[t] = "x_calling"
  /\ \/ \E r \in ToolResultChoices(req[t].server_name, req[t].tool_name) :
          /\ xraw' = [xraw EXCEPT ![t] = r]
          /\ result' = [result EXCEPT ![t] = ExecSuccess(ExtractContent(r))]
          /\ pc' = [pc EXCEPT ![t] = "x_close"]
          /\ UNCHANGED raised
     \/ /\ ExecRaise(t, "tool",
                     IF req[t].tool_name \in Range(ServerTools(req[t].server_name))
                     THEN "tool call failed"
                     ELSE "Unknown tool: " \o req[t].tool_name)
        /\ UNCHANGED xraw
  /\ UNCHANGED << cache, listers, nreq, req, entry, qvars, citer, lstate,
                  xclose, cin, cout, fin, fout >>

\* A finally clause whose close lets the failure of close_all_sessions out: the
\* exception replaces the response prepared before.
ExecCloseRaises(t) ==
  /\ pc[t] = "x_close"
  /\ LET l == entry[t].lister
     IN \E closed \in BOOLEAN :
          /\ listers' = [listers EXCEPT ![l] = close_all_connections(@, closed)]
          /\ xclose' = [xclose EXCEPT ![t] =
                          IF ~listers[l].client THEN "no client"
                          ELSE IF closed THEN "closed" ELSE "close raised"]
          /\ result' = [result EXCEPT ![t] =
                          IF listers[l].client /\ ~closed
                          THEN Failure("Execution error: close failed") ELSE @]
  /\ pc' = [pc EXCEPT ![t] = "done"]
  /\ UNCHANGED << cache, nreq, req, entry, qvars, raised, citer, lstate,
                  cin, cout, fin, fout, xraw >>

\* The finally clause: close_all_connections on the request's own lister; then
\* the response prepared before is returned.
ExecClose(t) ==
  /\ pc[t] = "x_close"
  /\ LET l == entry[t].lister
     IN \E closed \in BOOLEAN :
          /\ listers' = [listers EXCEPT ![l] = close_all_connections(@, closed)]
          /\ xclose' = [xclose EXCEPT ![t] =
                          IF ~listers[l].client THEN "no client"
                          ELSE IF closed THEN "closed" ELSE "close raised"]
  /\ pc' = [pc EXCEPT ![t] = "done"]
  /\ UNCHANGED << cache, nreq, req, entry, qvars, raised, citer, lstate,
                  result, cin, cout, fin, fout, xraw >>

\* --------------------------------------------------------------- the server
\* The response has been sent; the thread is free for the next request.
Finish(t) ==
  /\ pc[t] = "done"
  /\ pc' = [pc EXCEPT ![t] = "idle"]
  /\ req' = [req EXCEPT ![t] = NoRequest]
  /\ entry' = [entry EXCEPT ![t] = NoEntry]
  /\ assistant' = [assistant EXCEPT ![t] = NoAssistant]
  /\ tasks' = [tasks EXCEPT ![t] = << >>]
  /\ doneOrder' = [doneOrder EXCEPT ![t] = << >>]
  /\ modelLog' = [modelLog EXCEPT ![t] = << >>]
  /\ toolLog' = [toolLog EXCEPT ![t] = << >>]
  /\ raised' = [raised EXCEPT ![t] = ""]
  /\ citer' = [citer EXCEPT ![t] = NoIter]
  /\ lstate' = [lstate EXCEPT ![t] = NoList]
  /\ result' = [result EXCEPT ![t] = NoResult]
  /\ xclose' = [xclose EXCEPT ![t] = ""]
  /\ xraw' = [xraw EXCEPT ![t] = NoCallToolResult]
  /\ UNCHANGED << cache, listers, nreq, cin, cout, fin, fout >>

\* ------------------------------------------- parse_config called on its own
\* ConfigParser.parse_config is applied to the arguments.
ParseConfig ==
  /\ cout = NoOutput
  /\ cout' = ParseConfigData(cin.env, cin.config_data, cin.auto_resolve)
  /\ UNCHANGED << cache, listers, nreq, pc, req, entry, qvars, raised, citer,
                  lstate, result, xclose, cin, fin, fout, xraw >>

InitConfig ==
  /\ ServerInit
  /\ cin \in ConfigInputs
  /\ cout = NoOutput
  /\ fin = NoCall
  /\ fout = NoReturn

NextConfig == ParseConfig

SpecConfig == InitConfig /\ [][NextConfig]_vars

\* ------------------------------------- the other pure functions on their own
\* A Configuration as validate_config sees it: the items of the dict, each a
\* key and the descriptor stored under it (whose name need not be the key).
Descriptor(name, command) == [name |-> name, command |-> command, args |-> NoArgs, env |-> NoEnv]
Item(key, server) == [key |-> key, server |-> server]

\* The loop of validate_config: per item, in the order of the dict, a warning
\* for an empty command (it names the key) and one for an empty name.
RECURSIVE ServerIssues(_)
ServerIssues(items) ==
  IF items = << >> THEN << >>
  ELSE LET name == Head(items).key
           server == Head(items).server
       IN (IF server.command = ""
           THEN << "Server '" \o name \o "' has empty command" >> ELSE << >>)
          \o (IF server.name = "" THEN << "Server has empty name" >> ELSE << >>)
          \o ServerIssues(Tail(items))

\* A validation that does not look at the names of the descriptors.
RECURSIVE ServerIssuesCommandOnly(_)
ServerIssuesCommandOnly(items) ==
  IF items = << >> THEN << >>
  ELSE (IF Head(items).server.command = ""
        THEN << "Server '" \o Head(items).key \o "' has empty command" >> ELSE << >>)
       \o ServerIssuesCommandOnly(Tail(items))

validate_configCommandOnly(servers) ==
  IF servers = << >> THEN << "No servers configured" >>
  ELSE ServerIssuesCommandOnly(servers)

\* ConfigParser.validate_config
validate_config(servers) ==
  IF servers = << >> THEN << "No servers configured" >>
  ELSE ServerIssues(servers)

\* The configurations validate_config is given: up to MaxServers descriptors
\* under distinct keys (the empty key included), with a name that is the key,
\* another name or empty, and a command that is empty or not.
ItemShapes(i) ==
  { Item(key, Descriptor(name, command)) :
      key \in {ServerKey(i), ""}, name \in {ServerKey(i), "other", ""},
      command \in {"", "npx"} }

DistinctKeys(items) ==
  \A i, j \in 1..Len(items) : i # j => items[i].key # items[j].key

Configurations ==
  UNION { { items \in [1..n -> UNION { ItemShapes(i) : i \in 1..n }] :
              /\ \A i \in 1..n : items[i] \in ItemShapes(i)
              /\ DistinctKeys(items) } : n \in 0..MaxServers }

\* A call of a pure function: its name and its arguments.
Call(op, env, command, servers, available_tools) ==
  [op |-> op, env |-> env, command |-> command, servers |-> servers,
   available_tools |-> available_tools]

ValidateCalls ==
  { Call("validate_config", HostEnv, "", servers, << >>) : servers \in Configurations }

\* The hosts the resolver functions probe: those of ResolverEnvs, a Windows
\* host with the command in two of the installation directories, and a host
\* that is not Windows but has a file at such a path.
ProbeEnvs ==
  ResolverEnvs \cup
  { MakeEnv("win32", {},
            {"C:/Users/dev/AppData/Roaming/npm/npx.cmd",
             "C:/Program Files/nodejs/npx.cmd"}),
    MakeEnv("win32", {},
            {"C:/Users/dev/AppData/Local/Programs/Python/Python313/Scripts/uvx.exe",
             "C:/Program Files/nodejs/uvx.cmd"}),
    MakeEnv("linux", {}, {"C:/Users/dev/AppData/Roaming/npm/npx.cmd"}),
    MakeEnv("linux", {"npm"}, {"C:/Program Files/nodejs/npx.cmd"}) }

\* The command tokens a configuration may carry: names, names in capitals,
\* paths, a name nothing provides, the empty string.
CommandTokens ==
  { "", "npx", "NPX", "npm", "uvx", "UVX", "uv", "python", "node", "nope",
    "/usr/bin/npx", "C:/Program Files/nodejs/npx.cmd" }

ResolveCalls ==
  { Call("resolve_command", env, command, << >>, << >>) :
      env \in ProbeEnvs, command \in CommandTokens }

FindCalls ==
  { Call("find_command", env, command, << >>, << >>) :
      env \in ProbeEnvs, command \in CommandTokens }

\* resolve_command applied to a token and then to what it returned, as when a
\* configuration built from resolved descriptors is parsed again on the same
\* host.
ResolveTwiceCalls ==
  { Call("resolve_command twice", env, command, << >>, << >>) :
      env \in ProbeEnvs, command \in CommandTokens }

\* The 'tools' mappings build_tools_schema is given: up to MaxServers servers
\* of distinct names, each with a list of tool names; names may hold the
\* character that joins server and tool in a function name.
SchemaServers == {"a", "a_b", "b"}
SchemaToolLists == { << >>, <<"t">>, <<"b_t">>, <<"t", "b_t">> }

AvailableTools ==
  UNION { { av \in [1..n -> [server : SchemaServers, tools : SchemaToolLists]] :
              \A i, j \in 1..n : i # j => av[i].server # av[j].server } :
          n \in 0..MaxServers }

SchemaCalls ==
  { Call("build_tools_schema", HostEnv, "", << >>, av) : av \in AvailableTools }

PureCalls ==
  ValidateCalls \cup ResolveCalls \cup FindCalls \cup SchemaCalls \cup ResolveTwiceCalls

Returned(value) == [returned |-> TRUE, value |-> value]

\* validate_config is applied to its argument.
ValidateConfig ==
  /\ fin.op = "validate_config"
  /\ ~fout.returned
  /\ fout' = Returned(validate_config(fin.servers))
  /\ UNCHANGED << cache, listers, nreq, pc, req, entry, qvars, raised, citer,
                  lstate, result, xclose, cin, cout, fin, xraw >>

\* resolve_command is applied to its argument on the host.
ResolveCommand ==
  /\ fin.op = "resolve_command"
  /\ ~fout.returned
  /\ fout' = Returned(resolve_command(fin.env, fin.command))
  /\ UNCHANGED << cache, listers, nreq, pc, req, entry, qvars, raised, citer,
                  lstate, result, xclose, cin, cout, fin, xraw >>

\* resolve_command is applied to its argument and again to its own result.
ResolveCommandTwice ==
  /\ fin.op = "resolve_command twice"
  /\ ~fout.returned
  /\ LET first == resolve_command(fin.env, fin.command)
     IN fout' = Returned([first |-> first,
                          second |-> resolve_command(fin.env, first)])
  /\ UNCHANGED << cache, listers, nreq, pc, req, entry, qvars, raised, citer,
                  lstate, result, xclose, cin, cout, fin, xraw >>

\* find_command is applied to its argument on the host.
FindCommand ==
  /\ fin.op = "find_command"
  /\ ~fout.returned
  /\ fout' = Returned(find_command(fin.env, fin.command))
  /\ UNCHANGED << cache, listers, nreq, pc, req, entry, qvars, raised, citer,
                  lstate, result, xclose, cin, cout, fin, xraw >>

\* build_tools_schema is applied to its argument.
BuildToolsSchema ==
  /\ fin.op = "build_tools_schema"
  /\ ~fout.returned
  /\ fout' = Returned(build_tools_schema(fin.available_tools))
  /\ UNCHANGED << cache, listers, nreq, pc, req, entry, qvars, raised, citer,
                  lstate, result, xclose, cin, cout, fin, xraw >>

InitPure ==
  /\ ServerInit
  /\ cin = NoInput
  /\ cout = NoOutput
  /\ fin \in PureCalls
  /\ fout = NoReturn

NextPure ==
  \/ ValidateConfig
  \/ ResolveCommand
  \/ ResolveCommandTwice
  \/ FindCommand
  \/ BuildToolsSchema

SpecPure == InitPure /\ [][NextPure]_vars

\* The server handling list-tools and clear-cache requests on its threads.
Next ==
  \E t \in Threads :
    \/ nreq < MaxRequests /\ StartList(t)
    \/ nreq < MaxRequests /\ StartClear(t)
    \/ GetOrCreate(t)
    \/ Connect(t)
    \/ ListStep(t)
    \/ ClearStep(t)
    \/ ClearDrop(t)
    \/ Finish(t)

Spec == Init /\ [][Next]_vars

\* One AI-directed query handled by one thread while the other thread handles
\* a list-tools or a clear-cache request.
QueryThread == "t1"

NextQuery ==
  \/ StartQuery(QueryThread)
  \/ Round1(QueryThread)
  \/ StartTask(QueryThread)
  \/ CompleteTask(QueryThread)
  \/ Round2(QueryThread)
  \/ \E t \in Threads :
       \/ t # QueryThread /\ StartList(t)
       \/ t # QueryThread /\ StartClear(t)
       \/ GetOrCreate(t)
       \/ Connect(t)
       \/ ListStep(t)
       \/ ClearStep(t)
       \/ ClearDrop(t)

SpecQuery == Init /\ [][NextQuery]_vars

\* One AI-directed query handled by one thread while the other thread handles
\* a clear-cache request, which may close the query's lister under it.
NextQueryLive ==
  \/ StartQuery(QueryThread)
  \/ Round1(QueryThread)
  \/ GetOrCreate(QueryThread)
  \/ Connect(QueryThread)
  \/ StartTask(QueryThread)
  \/ CompleteTask(QueryThread)
  \/ Round2(QueryThread)
  \/ \E t \in Threads \ {QueryThread} :
       \/ StartClear(t)
       \/ ClearStep(t)
       \/ ClearDrop(t)

\* The scheduling the query can rely on: the event loop runs every coroutine
\* that is ready (the cache lookup and the parse, the start of each call of the
\* batch), and each model call and each tool call eventually returns or
\* raises.  Nothing is assumed of connect_to_servers.
QueryFairness ==
  /\ WF_vars(Round1(QueryThread))
  /\ WF_vars(GetOrCreate(QueryThread))
  /\ WF_vars(StartTask(QueryThread))
  /\ WF_vars(CompleteTask(QueryThread))
  /\ WF_vars(Round2(QueryThread))

SpecQueryLive == Init /\ [][NextQueryLive]_vars /\ QueryFairness

\* One execute-tool request handled by one thread while the other thread
\* handles a list-tools or a clear-cache request.
ExecThread == "t1"

NextExec ==
  \/ StartExec(ExecThread)
  \/ ExecParse(ExecThread)
  \/ ExecConnect(ExecThread)
  \/ ExecCall(ExecThread)
  \/ ExecClose(ExecThread)
  \/ \E t \in Threads :
       \/ t # ExecThread /\ StartList(t)
       \/ t # ExecThread /\ StartClear(t)
       \/ GetOrCreate(t)
       \/ Connect(t)
       \/ ListStep(t)
       \/ ClearStep(t)
       \/ ClearDrop(t)

SpecExec == Init /\ [][NextExec]_vars


\* ==================================================================== claims
q == QueryThread

IsToolMessage(m) == m.role = "tool"

\* The tool-response messages of the conversation the second model call got.
Round2ToolMessages == SelectSeq(modelLog[q][2].messages, IsToolMessage)

Round2Sent == Len(modelLog[q]) = 2

RequestedIds == { assistant[q].tool_calls[i].id : i \in 1..Len(assistant[q].tool_calls) }

\* C1: when the first response requested N tool calls, the conversation of
\* round 2 holds exactly N tool-response messages: one for each requested call
\* id and none for any other id, whichever calls threw, returned None or named
\* a function outside the tool mapping.
C1_OneToolMessagePerCall ==
  Round2Sent =>
    /\ Len(Round2ToolMessages) = Len(assistant[q].tool_calls)
    /\ \A id \in RequestedIds :
         Cardinality({ i \in 1..Len(Round2ToolMessages) :
                         Round2ToolMessages[i].tool_call_id = id }) = 1
    /\ \A i \in 1..Len(Round2ToolMessages) :
         Round2ToolMessages[i].tool_call_id \in RequestedIds

\* Round 2 was sent for two calls of which one threw and one returned None.
C1_Witness ==
  /\ Round2Sent
  /\ Len(tasks[q]) = 2
  /\ \E i, j \in 1..2 : tasks[q][i].kind = "Exception" /\ tasks[q][j].kind = "None"

\* C2: whatever the order in which the calls of the batch completed, the i-th
\* tool-response message of round 2 carries the id of the i-th requested call.
C2_RequestOrder ==
  Round2Sent =>
    /\ Len(Round2ToolMessages) = Len(assistant[q].tool_calls)
    /\ \A i \in 1..Len(Round2ToolMessages) :
         Round2ToolMessages[i].tool_call_id = assistant[q].tool_calls[i].id

\* Round 2 was sent after the second call completed before the first, both
\* with a result.
C2_Witness ==
  /\ Round2Sent
  /\ doneOrder[q] = <<2, 1>>
  /\ tasks[q][1].kind = "dict"
  /\ tasks[q][2].kind = "dict"

\* The content the tool server produced for the i-th requested call.
OwnOutput(i) ==
  LET tc == assistant[q].tool_calls[i]
      pair == build_tools_schema(req[q].tools).tool_mapping[tc.name]
  IN ToolOutput(pair.server, pair.tool, tc.id)

\* C3: the tool-response message of a call that succeeded carries the content
\* that call produced; the message of a call that threw, or whose function name
\* is not in the tool mapping, carries the fixed placeholder, never the content
\* of another call.
C3_OwnContentOrPlaceholder ==
  Round2Sent =>
    \A i \in 1..Len(assistant[q].tool_calls) :
      /\ i <= Len(Round2ToolMessages)
      /\ tasks[q][i].kind = "dict" => Round2ToolMessages[i].content = OwnOutput(i)
      /\ tasks[q][i].kind \in {"Exception", "None"} =>
            Round2ToolMessages[i].content = Placeholder

\* Round 2 was sent for two calls issued to tool servers, of which one returned
\* and one threw.
C3_Witness ==
  /\ Round2Sent
  /\ Len(toolLog[q]) = 2
  /\ \E i, j \in 1..2 : tasks[q][i].kind = "dict" /\ tasks[q][j].kind = "Exception"

\* C4: a call of the batch that throws neither aborts its siblings nor fails
\* the query: when a call has thrown and the handler has returned, every call
\* of the batch has finished, the result of each one that returned is in its
\* tool message, the second model call was made and, unless that call itself
\* failed, the query succeeded with its answer.
C4_ThrowIsIsolated ==
  (pc[q] = "done" /\ \E i \in 1..Len(tasks[q]) : tasks[q][i].kind = "Exception") =>
    /\ \A j \in 1..Len(tasks[q]) : Finished(tasks[q][j])
    /\ Round2Sent
    /\ \A j \in 1..Len(tasks[q]) :
         tasks[q][j].kind = "dict" =>
           /\ j <= Len(Round2ToolMessages)
           /\ Round2ToolMessages[j].content = tasks[q][j].content
    /\ raised[q] \in {"", "round2"}
    /\ raised[q] = "" => result[q].success /\ result[q].response = Round2Content

\* The query succeeded although both of its calls threw.
C4_Witness ==
  /\ pc[q] = "done"
  /\ Len(tasks[q]) = 2
  /\ Len(toolLog[q]) = 2
  /\ \A i \in 1..2 : tasks[q][i].kind = "Exception"
  /\ result[q].success


\* C5: a query whose first response carries no tool calls returns that
\* response's content as its answer and an empty tool_calls list, makes no
\* second model call and looks up no connection; the steps such a query
\* consists of (the request's entry and the first round) leave the connection
\* cache and every lister as they were.
C5_NoToolCalls ==
  /\ [](( /\ pc[q] = "done"
          /\ Len(modelLog[q]) >= 1
          /\ raised[q] = ""
          /\ assistant[q].tool_calls = << >> ) =>
          /\ result[q].success
          /\ result[q].response = assistant[q].content
          /\ result[q].tool_calls = << >>
          /\ Len(modelLog[q]) = 1
          /\ entry[q] = NoEntry)
  /\ [][(pc[q] \in {"idle", "q_round1"} /\ pc'[q] # pc[q]) =>
          (cache' = cache /\ listers' = listers)]_vars

\* The query returned the first response directly while the cache held an
\* entry of another request.
C5_Witness ==
  /\ pc[q] = "done"
  /\ Len(modelLog[q]) = 1
  /\ raised[q] = ""
  /\ result[q].success
  /\ result[q].response = Round1Content
  /\ CachedKeys # {}

\* C6: a query calls the model at most twice: first with the schema built from
\* the request's tools (no 'tools' argument when that schema is empty) and, only
\* when the first response requested tool calls and all of them have finished,
\* once more without a schema; a successful query made one call when no tool
\* call was requested and two otherwise; after the second call no model call
\* and no tool call is made.
C6_TwoRounds ==
  /\ [](/\ Len(modelLog[q]) <= 2
        /\ Len(modelLog[q]) >= 1 =>
             LET schema == build_tools_schema(req[q].tools).tools_for_openai
             IN /\ modelLog[q][1].tools.given = (schema # << >>)
                /\ modelLog[q][1].tools.tools = schema
                /\ modelLog[q][1].messages = Round1Messages(req[q].query)
        /\ Round2Sent =>
             /\ assistant[q].tool_calls # << >>
             /\ \A i \in 1..Len(tasks[q]) : Finished(tasks[q][i])
             /\ ~modelLog[q][2].tools.given
             /\ pc[q] = "done"
        /\ (pc[q] = "done" /\ result[q].success) =>
             Len(modelLog[q]) = IF assistant[q].tool_calls = << >> THEN 1 ELSE 2)
  /\ [][Round2Sent =>
          (modelLog'[q] = modelLog[q] /\ toolLog'[q] = toolLog[q] /\ tasks'[q] = tasks[q])]_vars

\* A query went through both rounds with two tool calls issued in between.
C6_Witness ==
  /\ pc[q] = "done"
  /\ Round2Sent
  /\ Len(toolLog[q]) = 2
  /\ result[q].success

\* C7: whatever raised while the query was processed (the first or the second
\* model call, the parsing of the configuration, the opening of the
\* connections), the handler returns a result with success false and a
\* non-empty error; no exception leaves process_ai_query.
C7_ErrorsAreCaught ==
  /\ pc[q] # "escaped"
  /\ raised[q] # "" =>
       /\ pc[q] = "done"
       /\ ~result[q].success
       /\ result[q].error # ""

\* The second model call raised after a batch of tool calls.
C7_Witness ==
  /\ pc[q] = "done"
  /\ raised[q] = "round2"
  /\ ~result[q].success
  /\ tasks[q] # << >>

\* C8: a get_or_create_connection that finds the digest of its text in the
\* cache returns the cached pair without making a lister, opening a session or
\* changing the cache; the call that created the pair stored under that digest
\* exactly the pair it returned.  So a second call with the same text, directly
\* after a first that succeeded, returns the first one's pair.
C8_GetOrCreateIdempotent ==
  [][\A t \in Threads :
       LET h == get_config_hash(req[t].config)
       IN /\ (pc[t] = "goc" /\ pc'[t] # "goc" /\ cache[h] # NoEntry) =>
               /\ entry'[t] = cache[h]
               /\ pc'[t] = AfterConnection(t)
               /\ cache' = cache
               /\ listers' = listers
          /\ (pc[t] = "connecting" /\ pc'[t] = AfterConnection(t)) =>
               /\ cache'[h] = entry'[t]
               /\ entry'[t] = entry[t]]_vars

\* A second request with the text of a finished first one holds the pair the
\* first one made; only one lister was ever made.
C8_Witness ==
  /\ nreq = 2
  /\ Cardinality({ l \in ListerIds : listers[l].made }) = 1
  /\ \E t \in Threads :
       /\ pc[t] = "l_tools"
       /\ entry[t].lister = 1
       /\ entry[t] = cache[get_config_hash(req[t].config)]
       /\ \A u \in Threads \ {t} : pc[u] = "idle"

\* A lister whose sessions are all open.
Live(l) ==
  /\ listers[l].made
  /\ listers[l].client
  /\ listers[l].sessions # {}
  /\ listers[l].sessions = Range(listers[l].server_names)

\* C9: two requests with the same configuration text never both open
\* connections: no two live connection sets exist for one digest.
C9_OneLiveSetPerFingerprint ==
  \A l1, l2 \in ListerIds :
    (l1 # l2 /\ Live(l1) /\ Live(l2)) => listers[l1].key # listers[l2].key

\* C10: clear_cache never closes or drops entries while a
\* get_or_create_connection is between its cache miss and its store.
C10_ClearExcludesCreation ==
  \A t, u \in Threads :
    ~(pc[t] \in {"c_iter", "c_drop"} /\ pc[u] = "connecting")

\* C11: a clear-cache request that returns has attempted to close the lister of
\* every entry it drops, returns success and leaves the cache empty, whatever
\* the cache held when it started (nothing included).
C11_ClearClosesAllAndEmpties ==
  [][\A t \in Threads :
       (req[t].kind = "clear" /\ pc[t] # "done" /\ pc'[t] = "done") =>
         /\ result'[t].success
         /\ CachedKeys' = {}
         /\ CachedKeys \subseteq citer[t].visited]_vars

\* C12: a get_or_create_connection that fails, at the parsing of the text or
\* at the opening of the connections, leaves the cache as it was: no entry is
\* stored for its digest.  No failure is remembered: a call that misses the
\* cache parses its text again and, when the text parses, makes a new lister
\* and opens its connections, whatever happened to earlier calls.
C12_FailureLeavesCache ==
  [][\A t \in Threads :
       LET h == get_config_hash(req[t].config)
       IN /\ (pc[t] \in {"goc", "connecting"} /\ pc'[t] = "done") =>
               /\ ~result'[t].success
               /\ cache' = cache
          /\ (pc[t] = "goc" /\ pc'[t] # "goc" /\ cache[h] = NoEntry) =>
               IF parse_config(HostEnv, req[t].config, TRUE).ok
               THEN /\ pc'[t] = "connecting"
                    /\ ~listers[entry'[t].lister].made
                    /\ listers'[entry'[t].lister].made
                    /\ listers'[entry'[t].lister].key = h
               ELSE /\ pc'[t] = "done"
                    /\ raised'[t] = parse_config(HostEnv, req[t].config, TRUE).exception]_vars

\* After a first request whose connections failed to open, a second request
\* with the same text is opening connections of its own; the cache holds no
\* entry for the digest.
C12_Witness ==
  \E t \in Threads :
    /\ pc[t] = "connecting"
    /\ entry[t].lister = 2
    /\ listers[1].key = listers[2].key
    /\ listers[1].client
    /\ listers[1].sessions # Range(listers[1].server_names)
    /\ cache[listers[2].key] = NoEntry
    /\ \A u \in Threads \ {t} : pc[u] = "idle"

xt == ExecThread

\* The execute-tool request has returned after making its lister.
ExecReturned == pc[xt] = "done" /\ req[xt].kind = "exec" /\ entry[xt] # NoEntry

\* C13 as stated: whenever execute_mcp_tool returns after making its lister,
\* the close step has run on that lister and none of its sessions is open.
C13_NoSessionRemainsOpen ==
  ExecReturned =>
    /\ xclose[xt] # ""
    /\ listers[entry[xt].lister].sessions = {}

\* C13, amended: whenever execute_mcp_tool returns after making its lister, on
\* every exit path (the tool call returned, the tool call raised, the opening
\* of the connections raised), close_all_connections has run on that lister:
\* the lister has no client left, and none of its sessions is open unless
\* close_all_sessions itself raised.
C13_CloseRanOnEveryExit ==
  ExecReturned =>
    /\ xclose[xt] \in {"closed", "close raised", "no client"}
    /\ ~listers[entry[xt].lister].client
    /\ xclose[xt] # "close raised" => listers[entry[xt].lister].sessions = {}

\* The tool call raised with the sessions of two servers open; the request
\* returned its execution error after the sessions were closed.
C13_Witness ==
  /\ ExecReturned
  /\ raised[xt] = "tool"
  /\ Len(entry[xt].servers) = 2
  /\ xclose[xt] = "closed"
  /\ listers[entry[xt].lister].sessions = {}
  /\ ~result[xt].success

\* The text error holds the text part.
Contains(error, part) ==
  \E i \in 1..(Len(error) - Len(part) + 1) :
    SubSeq(error, i, i + Len(part) - 1) = part

\* The execute-tool request got past the route and its configuration parses,
\* but the configuration has no server of the requested name.
ExecServerAbsent ==
  /\ req[xt].kind = "exec"
  /\ req[xt].config # "" /\ req[xt].server_name # "" /\ req[xt].tool_name # ""
  /\ parse_config(HostEnv, req[xt].config, TRUE).ok
  /\ req[xt].server_name \notin
       Range(ServerNamesOf(parse_config(HostEnv, req[xt].config, TRUE).servers))

\* C14: execute_mcp_tool with a server name that is not a key of the parsed
\* configuration returns success false with an error that contains 'not found
\* in configuration'; it makes no lister, opens no session and calls no tool.
C14_UnknownServerRejected ==
  /\ []((ExecServerAbsent /\ pc[xt] = "done") =>
          /\ ~result[xt].success
          /\ Contains(result[xt].error, "not found in configuration")
          /\ entry[xt] = NoEntry
          /\ toolLog[xt] = << >>
          /\ xclose[xt] = "")
  /\ [][(ExecServerAbsent /\ pc[xt] = "x_parse" /\ pc'[xt] # "x_parse") =>
          (pc'[xt] = "done" /\ listers' = listers /\ cache' = cache)]_vars

\* The request named server b with a configuration that only has server a.
C14_Witness ==
  /\ pc[xt] = "done"
  /\ req[xt].kind = "exec"
  /\ req[xt].config = "cfgA"
  /\ req[xt].server_name = "b"
  /\ result[xt].error = "Server \"b\" not found in configuration"

\* C15: the error execute_mcp_tool returns for a server name that is not in
\* the configuration carries the valid server names, introduced by 'Available
\* servers'.
C15_ErrorListsServers ==
  (ExecServerAbsent /\ pc[xt] = "done") =>
    /\ Contains(result[xt].error, "Available servers")
    /\ \A name \in Range(ServerNamesOf(parse_config(HostEnv, req[xt].config, TRUE).servers)) :
         Contains(result[xt].error, name)

\* The execute-tool request called a tool its server does not expose, and has
\* returned.
ExecToolAbsent ==
  /\ pc[xt] = "done"
  /\ req[xt].kind = "exec"
  /\ toolLog[xt] # << >>
  /\ req[xt].tool_name \notin Range(ServerTools(req[xt].server_name))

\* C16: calling a tool that is not among the tools of the named server gives
\* success false with an error that contains 'not found on server' and
\* 'Available tools', an outcome a tool that exists and fails never gives.
C16_ToolNotFoundIsDistinct ==
  ExecToolAbsent =>
    /\ ~result[xt].success
    /\ Contains(result[xt].error, "not found on server")
    /\ Contains(result[xt].error, "Available tools")

\* parse_config has been applied to its arguments.
Parsed == cout # NoOutput

\* The decoded text has no top-level 'mcpServers' key.
LacksServersKey(config_data) ==
  config_data.ok /\ (config_data.kind # "dict" \/ ~config_data.has_mcpServers)

\* The decoded text has a server definition without a 'command' field.
LacksCommand(config_data) ==
  /\ config_data.ok /\ config_data.kind = "dict" /\ config_data.has_mcpServers
  /\ config_data.servers_kind = "dict"
  /\ \E i \in 1..Len(config_data.mcpServers) :
       \/ config_data.mcpServers[i].kind # "dict"
       \/ ~config_data.mcpServers[i].has_command

\* C17: for every text that is not well-formed JSON, or has no top-level
\* 'mcpServers' key, or has a server definition without 'command', parse_config
\* raises ValueError and returns no descriptor at all, also when the servers
\* before the offending one were valid.
C17_MalformedIsValueError ==
  (Parsed /\ ( \/ ~cin.config_data.ok
               \/ LacksServersKey(cin.config_data)
               \/ LacksCommand(cin.config_data) )) =>
    /\ ~cout.ok
    /\ cout.exception = "ValueError"
    /\ cout.servers = << >>

\* C18: whenever parse_config returns no configuration, what it raised is a
\* ValueError, whatever the shape of the decoded text.
C18_SingleErrorKind ==
  (Parsed /\ ~cout.ok) => cout.exception = "ValueError"

\* C19: every descriptor of a configuration parse_config returns has a
\* non-empty command, with and without auto_resolve.
C19_NonEmptyCommand ==
  (Parsed /\ cout.ok) =>
    \A i \in 1..Len(cout.servers) : cout.servers[i].command # ""

\* C20: every descriptor of a configuration parse_config returns has the name
\* of its key and the args and env of its definition (an empty sequence and an
\* empty mapping when the definition has none), one descriptor per key; without
\* auto_resolve its command is the definition's command, and with auto_resolve
\* name, args and env are the same as without.
C20_FieldsPreserved ==
  (Parsed /\ cout.ok) =>
    LET defs == cin.config_data.mcpServers
    IN /\ Len(cout.servers) = Len(defs)
       /\ \A i \in 1..Len(defs) :
            /\ cout.servers[i].name = defs[i].name
            /\ cout.servers[i].args = IF defs[i].has_args THEN defs[i].args ELSE << >>
            /\ cout.servers[i].env = IF defs[i].has_env THEN defs[i].env ELSE << >>
            /\ ~cin.auto_resolve => cout.servers[i].command = defs[i].command

\* A configuration of two servers was parsed with auto_resolve: the command of
\* a server that has args and env was resolved to another one, the other
\* server has neither args nor env.
C20_Witness ==
  /\ Parsed
  /\ cout.ok
  /\ cin.auto_resolve
  /\ Len(cout.servers) = 2
  /\ \E i, j \in 1..2 :
       /\ cin.config_data.mcpServers[i].has_args
       /\ cin.config_data.mcpServers[i].has_env
       /\ cout.servers[i].command # cin.config_data.mcpServers[i].command
       /\ cout.servers[i].env # << >>
       /\ ~cin.config_data.mcpServers[j].has_args
       /\ ~cin.config_data.mcpServers[j].has_env

\* The number of warnings the descriptors of a configuration call for: one per
\* empty command and one per empty name.
RECURSIVE CountIssues(_)
CountIssues(items) ==
  IF items = << >> THEN 0
  ELSE (IF Head(items).server.command = "" THEN 1 ELSE 0)
       + (IF Head(items).server.name = "" THEN 1 ELSE 0)
       + CountIssues(Tail(items))

Validated == fin.op = "validate_config" /\ fout.returned

\* C21: validate_config returns a list (it has no step that can raise on a
\* Configuration).  The list is empty exactly when the configuration is
\* non-empty and every descriptor has a non-empty command and a non-empty name;
\* for the empty configuration it is the single warning 'No servers
\* configured'; otherwise it holds one warning per empty command, naming the
\* key of the descriptor, and one per empty name.
C21_ValidateWarnings ==
  Validated =>
    LET servers == fin.servers
        issues == fout.value
    IN /\ (issues = << >>) <=>
            /\ servers # << >>
            /\ \A i \in 1..Len(servers) :
                 servers[i].server.command # "" /\ servers[i].server.name # ""
       /\ servers = << >> => issues = << "No servers configured" >>
       /\ servers # << >> => Len(issues) = CountIssues(servers)
       /\ \A i \in 1..Len(servers) :
            /\ servers[i].server.command = "" =>
                 \E k \in 1..Len(issues) :
                   issues[k] = "Server '" \o servers[i].key \o "' has empty command"
            /\ servers[i].server.name = "" =>
                 \E k \in 1..Len(issues) : issues[k] = "Server has empty name"

\* A configuration of two descriptors was validated: one has an empty command
\* and an empty name, the other is complete.
C21_Witness ==
  /\ Validated
  /\ Len(fin.servers) = 2
  /\ fin.servers[1].server.command = "" /\ fin.servers[1].server.name = ""
  /\ fin.servers[2].server.command # "" /\ fin.servers[2].server.name # ""
  /\ Len(fout.value) = 2

Resolved == fin.op = "resolve_command" /\ fout.returned

\* The positions of the alternatives of a table key that find_command resolves.
ResolvingAlternatives(env, key) ==
  { i \in 1..Len(COMMAND_ALTERNATIVES[key]) :
      find_command(env, COMMAND_ALTERNATIVES[key][i]) # NotFound }

\* What resolve_command has to return when the token is looked up in the
\* synonym table under the given key.
ResolutionBy(env, command, key, value) ==
  IF IsFile(env, command) THEN value = command
  ELSE IF find_command(env, command) # NotFound THEN value = find_command(env, command)
  ELSE IF key \in DOMAIN COMMAND_ALTERNATIVES /\ ResolvingAlternatives(env, key) # {}
  THEN LET first == CHOOSE i \in ResolvingAlternatives(env, key) :
                      \A j \in ResolvingAlternatives(env, key) : i <= j
       IN value = find_command(env, COMMAND_ALTERNATIVES[key][first])
  ELSE value = command

\* C22 as stated: resolve_command(name) returns name when it is an existing
\* file, else find_command(name) when that resolves, else, when name is a key
\* of the synonym table, the resolution of the first alternative in table order
\* that resolves, else name.
C22_ResolveByExactKey ==
  Resolved => ResolutionBy(fin.env, fin.command, fin.command, fout.value)

\* C22, amended: resolve_command(name) returns name when it is an existing
\* file, else find_command(name) when that resolves, else, when the lower-cased
\* name is a key of the synonym table, the resolution of the first alternative
\* in table order that resolves, else name.  It always returns a string, never
\* 'not found'.
C22_ResolveByLowerCasedKey ==
  Resolved =>
    /\ ResolutionBy(fin.env, fin.command, Lower(fin.command), fout.value)
    /\ fout.value # NotFound

\* 'uvx' was resolved on a host where uvx is absent and uv is on the search
\* path: the path of uv was returned.
C22_Witness ==
  /\ Resolved
  /\ fin.command = "uvx"
  /\ find_command(fin.env, "uvx") = NotFound
  /\ "uv" \in fin.env.on_path
  /\ fout.value = find_command(fin.env, "uv")
  /\ fout.value # "uvx"

Found == fin.op = "find_command" /\ fout.returned

\* The positions of the installation-directory list that hold a file.
ExistingInstallPaths(env, command) ==
  { i \in 1..Len(WindowsSearchPaths(env, command)) :
      IsFile(env, WindowsSearchPaths(env, command)[i]) }

\* C23: find_command(name) returns name when it is an existing file; otherwise
\* the hit of the search path when there is one; otherwise, only on Windows,
\* the first existing path of the installation-directory list in list order;
\* otherwise 'not found'.  On another platform a file in an installation
\* directory does not change the result.
C23_FindCommand ==
  Found =>
    LET env == fin.env
        command == fin.command
        hits == ExistingInstallPaths(env, command)
    IN IF IsFile(env, command) THEN fout.value = command
       ELSE IF Which(env, command) # NotFound THEN fout.value = Which(env, command)
       ELSE IF env.platform = "win32" /\ hits # {}
       THEN fout.value =
              WindowsSearchPaths(env, command)[CHOOSE i \in hits : \A j \in hits : i <= j]
       ELSE fout.value = NotFound

\* On a Windows host without the command on the search path, two of the
\* installation directories hold it: the one that comes first in the list was
\* returned.
C23_Witness ==
  /\ Found
  /\ fin.env.platform = "win32"
  /\ Which(fin.env, fin.command) = NotFound
  /\ Cardinality(ExistingInstallPaths(fin.env, fin.command)) = 2
  /\ fout.value = "C:/Users/dev/AppData/Roaming/npm/npx.cmd"

\* On a host that is not Windows a file exists at an installation path of the
\* command, which is neither a file itself nor on the search path.
C23_WitnessOtherPlatform ==
  /\ Found
  /\ fin.env.platform # "win32"
  /\ ExistingInstallPaths(fin.env, fin.command) # {}
  /\ fout.value = NotFound

\* A list-tools request that has begun to discover the tools of its servers.
Listing(t) == req[t].kind = "list" /\ lstate[t].index > 0

\* C24: in fetch_tools a server whose discovery fails contributes the empty
\* tool list, every other server contributes the list its session returned,
\* the failure does not reach the handler, and the request returns success
\* with these lists.
C24_DiscoveryFailureIsolated ==
  \A t \in Threads :
    Listing(t) =>
      /\ \A i \in 1..Len(lstate[t].all_tools) :
           lstate[t].all_tools[i].tools =
             IF i \in lstate[t].failed THEN << >>
             ELSE ServerTools(lstate[t].all_tools[i].server)
      /\ raised[t] = ""
      /\ pc[t] \in {"l_tools", "done"}
      /\ pc[t] = "done" =>
           /\ result[t].success
           /\ result[t].data.tools = lstate[t].all_tools

\* A list-tools request over two servers returned success: the discovery of the
\* first server failed, the second server's tools are listed.
C24_Witness ==
  \E t \in Threads :
    /\ Listing(t)
    /\ pc[t] = "done"
    /\ result[t].success
    /\ Len(result[t].data.tools) = 2
    /\ lstate[t].failed = {1}
    /\ result[t].data.tools[1].tools = << >>
    /\ result[t].data.tools[2].tools = ServerTools(result[t].data.tools[2].server)

\* C25: in every successful list-tools response, servers holds the names of
\* the servers of the request's configuration, server_count is their number,
\* tools has exactly one entry per configured server, in their order, and
\* total_tools is the sum of the lengths of the tool lists; on a cache miss, on
\* a cache hit and after any requests handled before.
C25_ListResponseShape ==
  \A t \in Threads :
    (req[t].kind = "list" /\ pc[t] = "done" /\ result[t].success) =>
      LET names == ServerNamesOf(parse_config(HostEnv, req[t].config, TRUE).servers)
          data == result[t].data
      IN /\ data.servers = names
         /\ data.server_count = Len(names)
         /\ Len(data.tools) = Len(names)
         /\ \A i \in 1..Len(data.tools) : data.tools[i].server = names[i]
         /\ data.total_tools =
              SeqSum([i \in 1..Len(data.tools) |-> Len(data.tools[i].tools)])

\* The text error begins with the text prefix.
HasPrefix(error, prefix) ==
  Len(error) >= Len(prefix) /\ SubSeq(error, 1, Len(prefix)) = prefix

\* The exceptions parse_config raises.
ParseExceptions == {"ValueError", "TypeError", "AttributeError"}

\* C26: whenever a handler that takes a configuration returns an error, the
\* error begins with 'Configuration error: ' exactly when the error came from
\* the parsing of the configuration.
C26_ConfigErrorsPrefixed ==
  \A t \in Threads :
    (pc[t] = "done" /\ raised[t] # "") =>
      (HasPrefix(result[t].error, "Configuration error: ")
         <=> raised[t] \in ParseExceptions)

\* The query request of thread q met a provider without credentials.
Unconfigured == req[q].kind = "query" /\ ~req[q].is_configured

\* C27: a query request that finds the provider without credentials is
\* rejected at once with success false: the configuration is not parsed, no
\* model call is made, no connection is looked up or created, and the step
\* that handles the request leaves the cache and the listers as they were.
C27_UnconfiguredIsRejectedFirst ==
  /\ [](Unconfigured =>
          /\ pc[q] = "done"
          /\ ~result[q].success
          /\ result[q].error # ""
          /\ modelLog[q] = << >>
          /\ toolLog[q] = << >>
          /\ entry[q] = NoEntry
          /\ raised[q] = "")
  /\ [][(pc[q] = "idle" /\ pc'[q] # "idle" /\ ~req'[q].is_configured) =>
          (cache' = cache /\ listers' = listers)]_vars

\* A query with a text that does not parse was rejected for the missing
\* credentials while the cache held the entry of another request.
C27_Witness ==
  /\ Unconfigured
  /\ pc[q] = "done"
  /\ req[q].config = "cfgBad"
  /\ req[q].query # ""
  /\ result[q].error =
       "OpenAI API key not configured. Please set OPENAI_API_KEY environment variable."
  /\ CachedKeys # {}

SchemaBuilt == fin.op = "build_tools_schema" /\ fout.returned

\* C28: build_tools_schema emits one schema entry per tool of every server, in
\* the order of the mapping, named serverName_toolName, and the tool mapping
\* sends the function name of every entry back to the (server, tool) pair the
\* entry was built from.
C28_MappingInvertsNames ==
  SchemaBuilt =>
    LET pairs == ToolPairs(fin.available_tools)
        schema == fout.value.tools_for_openai
        tool_mapping == fout.value.tool_mapping
    IN /\ Len(schema) = Len(pairs)
       /\ \A i \in 1..Len(pairs) :
            /\ schema[i] = pairs[i].server \o "_" \o pairs[i].tool
            /\ schema[i] \in DOMAIN tool_mapping
            /\ tool_mapping[schema[i]] = pairs[i]

\* The (server, tool) pairs of the call_tool invocations of the query, in the
\* order of the requested calls.
InvokedPairs ==
  [k \in 1..Len(toolLog[q]) |->
     [server |-> toolLog[q][k].server, tool |-> toolLog[q][k].tool]]

\* C29: the tool_calls list a query returns holds one pair, in request order,
\* for every requested call on which call_tool was invoked, and no other pair.
C29_ToolCallsAreTheInvoked ==
  (req[q].kind = "query" /\ pc[q] = "done" /\ result[q].success) =>
    result[q].tool_calls = InvokedPairs

\* The execute-tool request got a result from call_tool and built its response.
ExecSucceeded ==
  req[xt].kind = "exec" /\ pc[xt] \in {"x_close", "done"} /\ result[xt].success

\* The type of an element of content_list that is a bare string, not a block.
NoTypeTag == "(str)"

\* C30: the content of a successful execute-tool response has the length and
\* the order of the items of the tool result: an item with a text becomes a
\* text block with that text, an item with a payload becomes a block of another
\* type with that payload, every element has a type tag; a result without
\* content becomes exactly one text block that holds str(result).
C30_TypedContentBlocks ==
  ExecSucceeded =>
    LET items == xraw[xt].content
        content == result[xt].result.content
    IN IF items # << >>
       THEN /\ Len(content) = Len(items)
            /\ \A i \in 1..Len(items) :
                 /\ items[i].has_text =>
                      content[i].type = "text" /\ content[i].text = items[i].text
                 /\ (~items[i].has_text /\ items[i].has_data) =>
                      /\ content[i].type \notin {"text", NoTypeTag}
                      /\ content[i].data = items[i].data
                 /\ content[i].type # NoTypeTag
       ELSE content = << [type |-> "text", text |-> xraw[xt].str, data |-> ""] >>

\* The fingerprint of the configuration text of the request of thread t.
Fingerprint(t) == get_config_hash(req[t].config)

\* get_or_create_connection of thread t is suspended in connect_to_servers.
Creating(t) == pc[t] = "connecting"

\* What belongs to the creation of thread t: where it is, its pair, its lister
\* and the cache slot of its fingerprint.
CreationOf(t) ==
  << pc[t], entry[t], listers[entry[t].lister], cache[Fingerprint(t)] >>

\* C31: requests for different fingerprints do not block each other: while a
\* creation for fingerprint A is suspended opening its connections, a
\* get_or_create_connection for another fingerprint B can take its next step,
\* and the step that opens B's connections can store B's pair and return it,
\* each without any step of A's creation.
C31_DifferentFingerprintsDoNotBlock ==
  \A t, u \in Threads :
    (/\ t # u
     /\ Creating(t)
     /\ pc[u] \in {"goc", "connecting"}
     /\ Fingerprint(u) # Fingerprint(t)) =>
       /\ pc[u] = "goc" =>
            ENABLED (/\ GetOrCreate(u)
                     /\ pc'[u] # "goc"
                     /\ CreationOf(t)' = CreationOf(t))
       /\ pc[u] = "connecting" =>
            ENABLED (/\ Connect(u)
                     /\ pc'[u] = AfterConnection(u)
                     /\ cache'[Fingerprint(u)] = entry[u]
                     /\ CreationOf(t)' = CreationOf(t))

\* The creation for cfgA began first (its lister is the first one made) and is
\* still suspended, while the later request for cfgB has its pair, stored in
\* the cache, and is discovering tools.
C31_Witness ==
  /\ Creating("t1")
  /\ req["t1"].config = "cfgA"
  /\ entry["t1"].lister = 1
  /\ req["t2"].config = "cfgB"
  /\ entry["t2"].lister = 2
  /\ pc["t2"] = "l_tools"
  /\ cache[Fingerprint("t2")] = entry["t2"]
  /\ cache[Fingerprint("t1")] = NoEntry

\* The response execute_mcp_tool had prepared when its finally clause began:
\* the extracted content of the tool result, or the error of what was raised.
PrimaryResult(t) ==
  IF raised[t] = "" THEN ExecSuccess(ExtractContent(xraw[t]))
  ELSE Failure("Execution error: " \o
         (CASE raised[t] = "tool" ->
                 (IF req[t].tool_name \in Range(ServerTools(req[t].server_name))
                  THEN "tool call failed" ELSE "Unknown tool: " \o req[t].tool_name)
            [] raised[t] = "session" -> "no session for the server"
            [] OTHER -> IF xclose[t] = "no client" THEN "client construction failed"
                        ELSE "connection failed"))

\* A further close_all_connections on the lister changes nothing, whether its
\* close_all_sessions would succeed or raise: no close is attempted.
SecondCloseIsNoOp(lister) ==
  \A closed \in BOOLEAN : close_all_connections(lister, closed) = lister

\* C32 as stated: close_all_connections never raises, so the response prepared
\* before the cleanup is the one returned; after it returns the lister has no
\* client and no server name, whether or not closing failed, and a second call
\* is a no-op that attempts no further close.
C32_CleanupLeavesNothing ==
  ExecReturned =>
    /\ xclose[xt] # ""
    /\ result[xt] = PrimaryResult(xt)
    /\ ~listers[entry[xt].lister].client
    /\ listers[entry[xt].lister].server_names = << >>
    /\ SecondCloseIsNoOp(listers[entry[xt].lister])

\* C32, amended: close_all_connections never raises, so the response prepared
\* before the cleanup is the one returned; after it returns the lister has no
\* client, and when it had a client at the call it has no server name either,
\* whether or not closing failed; a second call is a no-op that attempts no
\* further close.
C32_CleanupNeverRaises ==
  ExecReturned =>
    /\ xclose[xt] # ""
    /\ result[xt] = PrimaryResult(xt)
    /\ ~listers[entry[xt].lister].client
    /\ xclose[xt] # "no client" => listers[entry[xt].lister].server_names = << >>
    /\ SecondCloseIsNoOp(listers[entry[xt].lister])

\* The tool call returned a result, closing the sessions raised and left them
\* open, and the request returned the tool result all the same.
C32_Witness ==
  /\ ExecReturned
  /\ xclose[xt] = "close raised"
  /\ listers[entry[xt].lister].sessions # {}
  /\ raised[xt] = ""
  /\ result[xt].success
  /\ result[xt].result = ExtractContent(xraw[xt])

\* process_ai_query is running for the request of the query thread.
QueryRunning == req[q].kind = "query" /\ pc[q] # "done"

\* The query has returned its result: success, or a failure with its error.
QueryDone ==
  /\ req[q].kind = "query"
  /\ pc[q] = "done"
  /\ result[q] # NoResult
  /\ result[q].success \/ result[q].error # ""

\* C33 as stated: if each model call and each tool call eventually returns or
\* fails, every query eventually returns a result, however many tool calls
\* were requested and in whatever order they complete.
C33_QueryTerminates == QueryRunning ~> QueryDone

\* C33, amended: if each model call, the opening of the connections and each
\* tool call eventually returns or fails, every query eventually returns a
\* result, however many tool calls were requested and in whatever order they
\* complete.
C33_QueryTerminatesIfConnectReturns ==
  WF_vars(Connect(QueryThread)) => (QueryRunning ~> QueryDone)

\* The query returned success after a batch of two calls that completed in
\* the reverse order of the request.
C33_Witness ==
  /\ QueryDone
  /\ result[q].success
  /\ Len(assistant[q].tool_calls) = 2
  /\ doneOrder[q] = <<2, 1>>

\* Thread t has the pair get_or_create_connection returned and is discovering
\* or calling tools with it.
UsingEntry(t) == pc[t] \in {"l_tools", "q_tasks"} /\ entry[t] # NoEntry

\* C34: a pair returned by get_or_create_connection has a lister that
\* clear_cache has not closed, and while the request that got it is still
\* discovering or calling tools the lister is not closed underneath it.
C34_EntryInUseIsOpen ==
  \A t \in Threads : UsingEntry(t) => listers[entry[t].lister].client

\* Lister l is the lister of a cache entry.
Cached(l) == \E h \in Digests : cache[h] # NoEntry /\ cache[h].lister = l

\* Lister l belongs to a request whose handler has not returned yet.
HeldByRunningRequest(l) ==
  \E t \in Threads : pc[t] \notin {"idle", "done"} /\ entry[t].lister = l

\* C35: when the opening of the connections inside get_or_create_connection
\* fails after some sessions were opened, they are closed before the error
\* reaches the caller: no session is open that belongs neither to a cache
\* entry nor to a request that is still running.
C35_NoOrphanSession ==
  \A l \in ListerIds :
    listers[l].sessions # {} => Cached(l) \/ HeldByRunningRequest(l)

\* The call_tool invocations the query made for the requested call of id.
InvocationsOf(id) == { k \in 1..Len(toolLog[q]) : toolLog[q][k].id = id }

\* The tool mapping of the query's request.
QueryToolMapping == build_tools_schema(req[q].tools).tool_mapping

\* C36: a requested call whose argument string does not decode, or whose
\* function name is not in the tool mapping, never leads to a call_tool; a
\* call_tool is made only for a requested call that decodes and maps to a
\* (server, tool) pair, on exactly that server and tool, and once per call:
\* once for every call that was issued, never twice.
C36_OnlyMappedCallsReachAServer ==
  req[q].kind = "query" =>
    /\ \A k \in 1..Len(toolLog[q]) : toolLog[q][k].id \in RequestedIds
    /\ \A i \in 1..Len(assistant[q].tool_calls) :
         LET tc == assistant[q].tool_calls[i]
             made == InvocationsOf(tc.id)
         IN /\ Cardinality(made) <= 1
            /\ (~JsonArgsOk(tc.arguments) \/ tc.name \notin DOMAIN QueryToolMapping)
                 => made = {}
            /\ \A k \in made :
                 /\ toolLog[q][k].server = QueryToolMapping[tc.name].server
                 /\ toolLog[q][k].tool = QueryToolMapping[tc.name].tool
            /\ (i <= Len(tasks[q]) /\ tasks[q][i].kind \in {"running", "dict"})
                 => Cardinality(made) = 1

\* The batch of two calls has finished: the first, whose arguments do not
\* decode, reached no server; the second reached its mapped server b once.
C36_Witness ==
  /\ req[q].kind = "query"
  /\ Len(tasks[q]) = 2
  /\ \A i \in 1..2 : Finished(tasks[q][i])
  /\ assistant[q].tool_calls[1].arguments = "{bad"
  /\ assistant[q].tool_calls[2].name = "b_t"
  /\ tasks[q][2].kind = "dict"
  /\ toolLog[q] = << [id |-> "call_2", server |-> "b", tool |-> "t"] >>

\* A step of the execute-tool request, from its route to its finally clause.
ExecStep ==
  \/ StartExec(xt)
  \/ ExecParse(xt)
  \/ ExecConnect(xt)
  \/ ExecCall(xt)
  \/ ExecClose(xt)

\* The listers of the cache entries.
CachedListers == { cache[h].lister : h \in CachedKeys }

\* C37: execute_mcp_tool neither reads nor writes the connection cache: the
\* lister it works with is never the lister of a cache entry, and each of its
\* steps, on the successful and on the failing paths, leaves the cache with the
\* entries it held and leaves the lister of every entry as it was, also when
\* the request's configuration text has an entry in the cache.
C37_ExecLeavesCacheAlone ==
  /\ []((req[xt].kind = "exec" /\ entry[xt] # NoEntry)
          => entry[xt].lister \notin CachedListers)
  /\ [][ExecStep =>
          /\ cache' = cache
          /\ \A l \in CachedListers : listers'[l] = listers[l]]_vars

\* The execute-tool request for cfgA has returned its tool result and closed
\* its own lister, while the cache entry of cfgA is there with its lister
\* connected.
C37_Witness ==
  /\ ExecReturned
  /\ req[xt].config = "cfgA"
  /\ result[xt].success
  /\ xclose[xt] = "closed"
  /\ cache[get_config_hash("cfgA")] # NoEntry
  /\ listers[cache[get_config_hash("cfgA")].lister].client
  /\ listers[cache[get_config_hash("cfgA")].lister].sessions = {"a"}
  /\ cache[get_config_hash("cfgA")].lister # entry[xt].lister

\* The error flag of a tool result: its isError attribute, False without one.
ErrorFlag(r) == IF r.has_isError THEN r.isError ELSE FALSE

\* C38: the isError flag of a successful execute-tool response equals the
\* error flag of the tool result (false when the result carries none), for
\* every tool result, one without content included.
C38_IsErrorIsTheResultFlag ==
  ExecSucceeded => result[xt].result.isError = ErrorFlag(xraw[xt])

ResolvedTwice == fin.op = "resolve_command twice" /\ fout.returned

\* C39: on an unchanged file system and search path resolve_command is
\* idempotent: applied to what it returned for a command token it returns the
\* same again, so parsing a configuration built from resolved descriptors
\* changes no command a second time.
C39_ResolveIdempotent ==
  ResolvedTwice => fout.value.second = fout.value.first

\* 'uvx' is no file and not on the search path; it was resolved to the path of
\* 'uv', and resolving that path returned it unchanged.
C39_Witness ==
  /\ ResolvedTwice
  /\ fin.command = "uvx"
  /\ find_command(fin.env, "uvx") = NotFound
  /\ fout.value.first = "/usr/bin/uv"
  /\ fout.value.second = "/usr/bin/uv"

====
